---- MODULE Spec2Model ----
(***************************************************************************)
(* Model of the stepped-execution engine of HighwayDataExaminer            *)
(* (src/HighwayDataExaminer/hdxjsfuncs.js): the HDXLinear container, the   *)
(* hdxAV scheduler (nextStep / oneIteration / oneAction) and the action    *)
(* table of hdxTraversalsSpanningAVCommon.                                 *)
(*                                                                         *)
(* JavaScript arrays are sequences: element i of an array, counted from 0 *)
(* as the code does, is element i + 1 of the sequence.                     *)
(***************************************************************************)
EXTENDS Integers, Sequences, FiniteSets, TLC

VARIABLES
    ldv,         \* a stand-alone HDXLinear object: type, items, addCount, removeCount
    retval,      \* what the last call of ldv.remove() returned
    stamps,      \* history: stamps[k] is the ordinal of the add() that put items[k] there
    addedLog,    \* history: the entries passed to add(), in call order
    removedLog,  \* history: [e, stamp] of each entry handed out by remove()
    prev,        \* history: items and stamps as they were before the last call
    lastOp,      \* history: "none", "add", "remove" (held an entry) or "removeEmpty"
    runLen,      \* history: removes that handed out an entry since the last add
    waypoints,   \* global waypoints: per vertex the edgeList (edge indices)
    graphEdges,  \* global graphEdges: per edge index v1, v2 and the length in miles
    ui,          \* the document: the controls startPoint, endPoint,
                 \* stoppingCondition, traversalDiscipline and pseudoCheckbox,
                 \* the panel on display, what the elements datatable and
                 \* pseudoText hold, and whether algOptions holds the controls
    hdxAV,       \* the hdxAV object: status, delay, traceActions, iterationDone,
                 \* nextAction, currentAV, execCounts, maxExecCount,
                 \* execCountRecolor
    thisAV,      \* the algorithm object hdxAV.currentAV refers to
    timers,      \* number of setTimeout continuations not yet fired
    thrown,      \* an exception escaped the last event handler
    hung,        \* an event handler is caught in a loop that does not end, or
                 \* has run action code on data that is not the graph of the
                 \* run: the page is not followed further
    steps,       \* history: actions executed since start was pressed
    sinceIter,   \* history: actions executed since one that set iterationDone
    lastTimeout, \* the delay passed to the latest setTimeout call of nextStep
    stale,       \* history: pending continuations set before the latest pause press
    last         \* history: the latest event handler and what it started from

linearVars == <<ldv, retval, stamps, addedLog, removedLog, prev, lastOp, runLen>>

avVars == <<waypoints, graphEdges, ui, hdxAV, thisAV, timers, thrown, hung,
           steps, sinceIter, lastTimeout, stale, last>>

vars == <<ldv, retval, stamps, addedLog, removedLog, prev, lastOp, runLen,
          waypoints, graphEdges, ui, hdxAV, thisAV, timers, thrown, hung,
          steps, sinceIter, lastTimeout, stale, last>>

(***************************************************************************)
(* Bounds of the model                                                     *)
(***************************************************************************)
MaxAdds == 4
MaxEmptyRemoves == 1
NumV == 4
MaxLen == 2
MaxActions == 40
MaxIterations == 60
MaxTimers == 2
MaxRuns == 2
MaxPoints == 3
MaxLat == 1
MaxLon == 3

\* priorities used by the add() calls of the container specification
Vals == {1, 3, 5, 8}

(***************************************************************************)
(* hdxLinearTypes                                                          *)
(***************************************************************************)
STACK == 1
QUEUE == 2
RANDOM == 3
PRIORITY_QUEUE == 4

hdxLinearTypes == {STACK, QUEUE, RANDOM, PRIORITY_QUEUE}

\* the value JavaScript yields for pop()/shift()/[index] on an empty array
undefined == [undefined |-> TRUE]

\* an LDVEntry that starts a traversal: connection -1, hence fromVIndex -1
SeedEntry(vIndex, val) ==
    [vIndex |-> vIndex, val |-> val, connection |-> -1, fromVIndex |-> -1]

\* new HDXLinear(type, displayName)
HDXLinear(type) ==
    [type |-> type, items |-> <<>>, addCount |-> 0, removeCount |-> 0]

\* faults of the comparator: the comparison turned round, and ties counted
\* as coming before
comesBeforeReversed(a, b) == a.val > b.val
comesBeforeOrEqual(a, b) == a.val <= b.val

\* the comparator hdxDijkstraAV and hdxPrimAV install with setComparator
comesBefore(a, b) == a.val < b.val

\* Array.prototype.splice(i, 0, e) and splice(i, 1), i counted from 0
SpliceIn(s, i, e) == SubSeq(s, 1, i) \o <<e>> \o SubSeq(s, i + 1, Len(s))
SpliceOut(s, i) == SubSeq(s, 1, i) \o SubSeq(s, i + 2, Len(s))

\* the scan of add(): the first array index i (from 0) at which e does not
\* come before items[i], or items.length
RECURSIVE ScanInsertIndex(_, _, _)
ScanInsertIndex(items, e, i) ==
    IF i < Len(items) /\ comesBefore(e, items[i + 1])
    THEN ScanInsertIndex(items, e, i + 1)
    ELSE i

\* fault of add(): the priority queue appends like the other types
AddIndexAppend(l, e) == Len(l.items)

\* the array index at which add() places e
AddIndex(l, e) ==
    IF l.type = PRIORITY_QUEUE /\ Len(l.items) > 0
    THEN ScanInsertIndex(l.items, e, 0)
    ELSE Len(l.items)

\* HDXLinear.add(e)
LinearAdd(l, e) ==
    [l EXCEPT !.items = SpliceIn(l.items, AddIndex(l, e), e),
              !.addCount = l.addCount + 1]

\* fault of remove(): the random index is always 0
RandomIndicesFirst(l) == {0}

\* the values Math.floor(Math.random() * items.length) can take
RandomIndices(l) ==
    IF Len(l.items) = 0 THEN {0} ELSE 0 .. (Len(l.items) - 1)

\* faults of remove(): shift() where pop() belongs, and pop() where shift()
\* belongs
RemoveIndexShift(l, r) == IF l.type = RANDOM THEN r ELSE 0
RemoveIndexPop(l, r) == IF l.type = RANDOM THEN r ELSE Len(l.items) - 1

\* the array index remove() takes its result from; r is the random index
RemoveIndex(l, r) ==
    CASE l.type = QUEUE -> 0
      [] l.type = RANDOM -> r
      [] OTHER -> Len(l.items) - 1

\* HDXLinear.remove(): the container afterwards and the value returned
LinearRemove(l, r) ==
    LET i == RemoveIndex(l, r) IN
    IF Len(l.items) = 0
    THEN [ldv |-> [l EXCEPT !.removeCount = l.removeCount + 1],
          retval |-> undefined]
    ELSE [ldv |-> [l EXCEPT !.items = SpliceOut(l.items, i),
                            !.removeCount = l.removeCount + 1],
          retval |-> l.items[i + 1]]

\* HDXLinear.isEmpty()
isEmpty(l) == Len(l.items) = 0

\* HDXLinear.containsFieldMatching("vIndex", value)
containsFieldMatching(l, value) ==
    \E k \in 1 .. Len(l.items) : l.items[k].vIndex = value

(***************************************************************************)
(* hdxStates                                                               *)
(***************************************************************************)
NO_DATA == 1
GRAPH_LOADED == 2
WPT_LOADED == 3
AV_SELECTED == 7
AV_RUNNING == 8
AV_PAUSED == 9
AV_COMPLETE == 10

(***************************************************************************)
(* The graph                                                               *)
(***************************************************************************)
numV == Len(waypoints)
numE == Len(graphEdges)

\* JavaScript's null
null == [null |-> TRUE]

\* array element i (from 0) of a sequence
At(s, i) == s[i + 1]

\* an array of n copies of x, and the array a with element i set to x
Filled(n, x) == [k \in 1 .. n |-> x]
SetAt(a, i, x) == [a EXCEPT ![i + 1] = x]

\* edgeLengthInMiles(graphEdges[connection])
edgeLengthInMiles(connection) == At(graphEdges, connection).len

\* parseTMGContents: every edge is pushed on the edgeList of both its end
\* points, in the order of the edge lines
RECURSIVE EdgeListOf(_, _, _)
EdgeListOf(edges, v, i) ==
    IF i >= Len(edges) THEN <<>>
    ELSE (IF At(edges, i).v1 = v THEN <<i>> ELSE <<>>)
         \o (IF At(edges, i).v2 = v THEN <<i>> ELSE <<>>)
         \o EdgeListOf(edges, v, i + 1)

parseTMGContents(n, edges) ==
    [k \in 1 .. n |-> [edgeList |-> EdgeListOf(edges, k - 1, 0)]]

\* new LDVEntry(vIndex, val, connection)
LDVEntry(vIndex, val, connection) ==
    [vIndex |-> vIndex, val |-> val, connection |-> connection,
     fromVIndex |->
        IF connection # -1
        THEN (IF At(graphEdges, connection).v1 = vIndex
              THEN At(graphEdges, connection).v2
              ELSE At(graphEdges, connection).v1)
        ELSE -1]

\* getAdjacentPoints(pointIndex)
getAdjacentPoints(pointIndex) ==
    LET edgeList == At(waypoints, pointIndex).edgeList IN
    [k \in 1 .. Len(edgeList) |->
        IF At(graphEdges, edgeList[k]).v1 = pointIndex
        THEN At(graphEdges, edgeList[k]).v2
        ELSE At(graphEdges, edgeList[k]).v1]

(***************************************************************************)
(* hdxTraversalsSpanningAVCommon and the three objects created from it     *)
(***************************************************************************)
\* the fields of hdxTraversalsSpanningAVCommon as the page load leaves them;
\* value is "traversals", "dijkstra" or "prim"
InitialAV(value) ==
    [value |-> value,
     supportFindAllComponents |-> value # "dijkstra",
     ldv |-> null,
     addedV |-> <<>>,
     discoveredV |-> <<>>,
     discoveredE |-> <<>>,
     stoppingCondition |-> "StopAtEnd",
     stoppedBecause |-> "StillRunning",
     componentVList |-> <<>>,
     componentEList |-> <<>>,
     startingVertex |-> -1,
     endingVertex |-> -1,
     startUnaddedVSearch |-> 0,
     visiting |-> null,
     neighborsToLoop |-> <<>>,
     nextNeighbor |-> -1,
     numVSpanningTree |-> 0,
     numESpanningTree |-> 0,
     numVUndiscovered |-> 0,
     numEUndiscovered |-> 0,
     numEDiscardedOnDiscovery |-> 0,
     numEDiscardedOnRemoval |-> 0,
     componentNum |-> 0,
     treeEdges |-> <<>>,
     allComponentsDone |-> FALSE,   \* the field does not exist yet: falsy
     foundEntries |-> <<>>,         \* rows of the table with id foundEntries
     foundPath |-> <<>>,            \* places cleanup marks as the path found
     hops |-> -1]                   \* hop count cleanup writes to foundLabel

\* fault of createLDV: breadth-first search is given a stack
createLDVStack(av, doc) ==
    IF av.value = "traversals"
    THEN (IF doc.traversalDiscipline = "RFS" THEN HDXLinear(RANDOM)
          ELSE HDXLinear(STACK))
    ELSE HDXLinear(PRIORITY_QUEUE)

\* createLDV of hdxGraphTraversalsAV, hdxDijkstraAV and hdxPrimAV
createLDV(av, doc) ==
    IF av.value = "traversals"
    THEN (IF doc.traversalDiscipline = "BFS" THEN HDXLinear(QUEUE)
          ELSE IF doc.traversalDiscipline = "DFS" THEN HDXLinear(STACK)
          ELSE HDXLinear(RANDOM))
    ELSE HDXLinear(PRIORITY_QUEUE)

\* fault of valForLDVEntry: Dijkstra's algorithm is given the value of Prim's
valForLDVEntryEdgeOnly(av, oldEntry, nextNeighbor) ==
    IF av.value = "traversals" THEN oldEntry.val + 1
    ELSE edgeLengthInMiles(nextNeighbor.via)

\* fault of valForLDVEntry: Prim's algorithm is given the value of Dijkstra's
valForLDVEntryPathLength(av, oldEntry, nextNeighbor) ==
    IF av.value = "traversals" THEN oldEntry.val + 1
    ELSE oldEntry.val + edgeLengthInMiles(nextNeighbor.via)

\* valForLDVEntry of hdxGraphTraversalsAV, hdxDijkstraAV and hdxPrimAV
valForLDVEntry(av, oldEntry, nextNeighbor) ==
    IF av.value = "traversals" THEN oldEntry.val + 1
    ELSE IF av.value = "dijkstra"
    THEN oldEntry.val + edgeLengthInMiles(nextNeighbor.via)
    ELSE edgeLengthInMiles(nextNeighbor.via)

\* hdxTraversalsSpanningAVCommon.prepToStart
prepToStart(av, doc) ==
    [av EXCEPT !.ldv = createLDV(av, doc),
               !.stoppingCondition = doc.stoppingCondition]

(***************************************************************************)
(* avActions of hdxTraversalsSpanningAVCommon.  An action maps the machine *)
(* m = [hdxAV, thisAV, ui, timers, thrown, hung, steps, sinceIter,         *)
(* lastTimeout] to the machine after its code has run.                     *)
(***************************************************************************)
Goto(m, av, label) ==
    [m EXCEPT !.thisAV = av, !.hdxAV.nextAction = label]

GotoIterationDone(m, av, label) ==
    [m EXCEPT !.thisAV = av, !.hdxAV.nextAction = label,
              !.hdxAV.iterationDone = TRUE]

\* an uncaught exception leaves the handler with the fields written so far
Throw(m, av) == [m EXCEPT !.thisAV = av, !.thrown = TRUE]

\* the action that follows the loop over the neighbors
LoopTopLabel(av) ==
    IF av.stoppingCondition = "StopAtEnd" THEN "checkEndAdded"
    ELSE "checkComponentDone"

AfterNeighbor(av) ==
    IF Len(av.neighborsToLoop) > 0 THEN "checkNeighborsLoopIf"
    ELSE LoopTopLabel(av)

START(m) ==
    LET av == m.thisAV
        s == m.ui.startPoint
        av1 == [av EXCEPT
                  !.addedV = Filled(numV, FALSE),
                  !.discoveredV = SetAt(Filled(numV, FALSE), s, TRUE),
                  !.discoveredE = Filled(numE, FALSE),
                  !.numVSpanningTree = 0,
                  !.numESpanningTree = 0,
                  !.numVUndiscovered = numV - 1,
                  !.numEUndiscovered = numE,
                  !.numEDiscardedOnDiscovery = 0,
                  !.numEDiscardedOnRemoval = 0,
                  !.componentNum = 0,
                  !.startUnaddedVSearch = 0,
                  !.startingVertex = s,
                  !.endingVertex =
                      IF av.stoppingCondition = "StopAtEnd" THEN m.ui.endPoint ELSE @,
                  !.ldv = LinearAdd(@, LDVEntry(s, 0, -1)),
                  !.allComponentsDone =
                      IF av.stoppingCondition \in {"StopAtEnd", "FindReachable"}
                      THEN @ ELSE FALSE]
    IN GotoIterationDone(m, av1,
          IF av.stoppingCondition = "StopAtEnd" THEN "checkEndAdded"
          ELSE IF av.stoppingCondition = "FindReachable" THEN "checkComponentDone"
          ELSE "checkAllComponentsDone")

checkAllComponentsDone(m) ==
    LET av == m.thisAV IN
    IF av.allComponentsDone
    THEN GotoIterationDone(m, [av EXCEPT !.stoppedBecause = "FoundAllComponents"],
                           "cleanup")
    ELSE GotoIterationDone(m, av, "checkComponentDone")

\* fault of checkComponentDone: the component counts as done as soon as it
\* has a vertex
checkComponentDoneEarly(m) ==
    LET av == m.thisAV IN
    IF isEmpty(av.ldv) \/ av.numVSpanningTree > 0
    THEN (IF av.stoppingCondition = "FindAll"
          THEN GotoIterationDone(m, av, "finalizeComponent")
          ELSE GotoIterationDone(m, [av EXCEPT !.stoppedBecause = "FoundComponent"],
                                 "cleanup"))
    ELSE GotoIterationDone(m, av, "getPlaceFromLDV")

checkComponentDone(m) ==
    LET av == m.thisAV IN
    IF isEmpty(av.ldv)
    THEN (IF av.stoppingCondition = "FindAll"
          THEN GotoIterationDone(m, av, "finalizeComponent")
          ELSE GotoIterationDone(m, [av EXCEPT !.stoppedBecause = "FoundComponent"],
                                 "cleanup"))
    ELSE GotoIterationDone(m, av, "getPlaceFromLDV")

\* fault of checkEndAdded: the end vertex is not looked at
checkEndAddedNever(m) == GotoIterationDone(m, m.thisAV, "checkLDVEmpty")

checkEndAdded(m) ==
    LET av == m.thisAV IN
    IF At(av.addedV, av.endingVertex)
    THEN GotoIterationDone(m, [av EXCEPT !.stoppedBecause = "FoundPath"], "cleanup")
    ELSE GotoIterationDone(m, av, "checkLDVEmpty")

\* fault of checkLDVEmpty: the container is not looked at
checkLDVEmptyNever(m) == Goto(m, m.thisAV, "getPlaceFromLDV")

checkLDVEmpty(m) ==
    LET av == m.thisAV IN
    IF isEmpty(av.ldv) THEN Goto(m, av, "LDVEmpty")
    ELSE Goto(m, av, "getPlaceFromLDV")

\* fault of LDVEmpty: the reason for stopping is not recorded
LDVEmptyNoReason(m) == Goto(m, m.thisAV, "cleanup")

\* fault of LDVEmpty: the failure is noted and the loop entered again
LDVEmptyLoops(m) ==
    Goto(m, [m.thisAV EXCEPT !.stoppedBecause = "SearchFailed"], "checkEndAdded")

LDVEmpty(m) ==
    Goto(m, [m.thisAV EXCEPT !.stoppedBecause = "SearchFailed"], "cleanup")

\* r is the value of Math.floor(Math.random() * items.length) in remove();
\* formatLDVEntry(undefined) throws a TypeError
getPlaceFromLDV(m, r) ==
    LET av == m.thisAV
        res == LinearRemove(av.ldv, r)
        av1 == [av EXCEPT !.ldv = res.ldv, !.visiting = res.retval]
    IN IF res.retval = undefined THEN Throw(m, av1)
       ELSE Goto(m, av1, "checkAdded")

\* fault of checkAdded: the place taken is added whether or not its
\* vertex was added before
checkAddedNever(m) == Goto(m, m.thisAV, "wasNotAdded")

checkAdded(m) ==
    LET av == m.thisAV IN
    IF At(av.addedV, av.visiting.vIndex) THEN Goto(m, av, "wasAdded")
    ELSE Goto(m, av, "wasNotAdded")

wasAdded(m) ==
    LET av == m.thisAV
        av1 == [av EXCEPT !.numEDiscardedOnRemoval = @ + 1]
    IN Goto(m, av1, LoopTopLabel(av))

wasNotAdded(m) ==
    LET av == m.thisAV
        hasEdge == av.visiting.connection # -1
        numESpanningTree == IF hasEdge THEN av.numESpanningTree + 1
                            ELSE av.numESpanningTree
        av1 == [av EXCEPT
                  !.addedV = SetAt(@, av.visiting.vIndex, TRUE),
                  !.componentVList = Append(@, av.visiting.vIndex),
                  !.numVSpanningTree = @ + 1,
                  !.numESpanningTree = numESpanningTree,
                  !.componentEList =
                      IF hasEdge THEN Append(@, av.visiting.connection) ELSE @,
                  !.foundEntries =
                      Append(@, [entry |-> av.visiting, count |-> numESpanningTree]),
                  !.treeEdges =
                      IF av.stoppingCondition = "StopAtEnd"
                      THEN Append(@, av.visiting) ELSE @]
    IN Goto(m, av1, "checkNeighborsLoopTop")

\* fault of checkNeighborsLoopTop: the edge the vertex was reached by is
\* not left out
RECURSIVE NeighborsFromAll(_, _, _, _)
NeighborsFromAll(neighbors, edgeList, visiting, i) ==
    IF i >= Len(neighbors) THEN <<>>
    ELSE <<[to |-> At(neighbors, i), via |-> At(edgeList, i)]>>
         \o NeighborsFromAll(neighbors, edgeList, visiting, i + 1)

\* the {to, via} objects checkNeighborsLoopTop pushes for the edgeList
\* positions i .. length-1 of the vertex being visited
RECURSIVE NeighborsFrom(_, _, _, _)
NeighborsFrom(neighbors, edgeList, visiting, i) ==
    IF i >= Len(neighbors) THEN <<>>
    ELSE (IF At(edgeList, i) # visiting.connection
          THEN <<[to |-> At(neighbors, i), via |-> At(edgeList, i)]>>
          ELSE <<>>)
         \o NeighborsFrom(neighbors, edgeList, visiting, i + 1)

checkNeighborsLoopTop(m) ==
    LET av == m.thisAV
        neighbors == getAdjacentPoints(av.visiting.vIndex)
        edgeList == At(waypoints, av.visiting.vIndex).edgeList
        av1 == [av EXCEPT !.neighborsToLoop =
                   @ \o NeighborsFrom(neighbors, edgeList, av.visiting, 0)]
    IN Goto(m, av1, AfterNeighbor(av1))

\* neighborsToLoop.pop() of an empty array is undefined, and reading
\* undefined.to throws a TypeError
checkNeighborsLoopIf(m) ==
    LET av == m.thisAV
        n == Len(av.neighborsToLoop)
    IN IF n = 0 THEN Throw(m, [av EXCEPT !.nextNeighbor = undefined])
       ELSE LET av1 == [av EXCEPT !.nextNeighbor = av.neighborsToLoop[n],
                                  !.neighborsToLoop = SubSeq(@, 1, n - 1)]
            IN IF At(av.addedV, av1.nextNeighbor.to)
               THEN Goto(m, av1, "checkNeighborsLoopIfTrue")
               ELSE Goto(m, av1, "checkNeighborsLoopIfFalse")

checkNeighborsLoopIfTrue(m) ==
    LET av == m.thisAV
        via == av.nextNeighbor.via
        fresh == ~At(av.discoveredE, via)
        av1 == [av EXCEPT
                  !.numEDiscardedOnDiscovery = @ + 1,
                  !.numEUndiscovered = IF fresh THEN @ - 1 ELSE @,
                  !.discoveredE = IF fresh THEN SetAt(@, via, TRUE) ELSE @]
    IN Goto(m, av1, AfterNeighbor(av1))

checkNeighborsLoopIfFalse(m) ==
    LET av == m.thisAV
        to == av.nextNeighbor.to
        via == av.nextNeighbor.via
        fresh == ~At(av.discoveredV, to)
        av1 == [av EXCEPT
                  !.numVUndiscovered = IF fresh THEN @ - 1 ELSE @,
                  !.discoveredV = IF fresh THEN SetAt(@, to, TRUE) ELSE @,
                  !.numEUndiscovered = @ - 1,
                  !.discoveredE = SetAt(@, via, TRUE),
                  !.ldv = LinearAdd(@,
                             LDVEntry(to, valForLDVEntry(av, av.visiting, av.nextNeighbor),
                                      via))]
    IN Goto(m, av1, AfterNeighbor(av1))

finalizeComponent(m) == Goto(m, m.thisAV, "checkAnyUnadded")

\* fault of checkAnyUnadded: the first component is taken for the last
checkAnyUnaddedNever(m) == Goto(m, m.thisAV, "doneToTrue")

checkAnyUnadded(m) ==
    IF numV # m.thisAV.numVSpanningTree
    THEN Goto(m, m.thisAV, "startNewComponent")
    ELSE Goto(m, m.thisAV, "doneToTrue")

\* the scan while (addedV[startUnaddedVSearch]) startUnaddedVSearch++;
\* addedV[i] is undefined, hence falsy, from i = addedV.length on
RECURSIVE ScanUnadded(_, _)
\* fault of the scan: the search index is used as it stands
ScanUnaddedNoScan(addedV, i) == i

ScanUnadded(addedV, i) ==
    IF i < Len(addedV) /\ At(addedV, i) THEN ScanUnadded(addedV, i + 1) ELSE i

\* writing discoveredV[i] with i = discoveredV.length lengthens the array
\* fault of startNewComponent: the discovered vertices are forgotten
startNewComponentClears(m) ==
    LET av == m.thisAV
        v == ScanUnadded(av.addedV, av.startUnaddedVSearch)
        av1 == [av EXCEPT
                  !.componentVList = <<>>,
                  !.componentEList = <<>>,
                  !.componentNum = @ + 1,
                  !.startUnaddedVSearch = v,
                  !.discoveredV = SetAt(Filled(numV, FALSE), v, TRUE),
                  !.numVUndiscovered = @ - 1,
                  !.ldv = LinearAdd(@, LDVEntry(v, 0, -1))]
    IN GotoIterationDone(m, av1, "checkAllComponentsDone")

startNewComponent(m) ==
    LET av == m.thisAV
        v == ScanUnadded(av.addedV, av.startUnaddedVSearch)
        av1 == [av EXCEPT
                  !.componentVList = <<>>,
                  !.componentEList = <<>>,
                  !.componentNum = @ + 1,
                  !.startUnaddedVSearch = v,
                  !.discoveredV = IF v < Len(@) THEN SetAt(@, v, TRUE)
                                  ELSE Append(@, TRUE),
                  !.numVUndiscovered = @ - 1,
                  !.ldv = LinearAdd(@, LDVEntry(v, 0, -1))]
    IN GotoIterationDone(m, av1, "checkAllComponentsDone")

doneToTrue(m) ==
    Goto(m, [m.thisAV EXCEPT !.allComponentsDone = TRUE], "checkAllComponentsDone")

\* the walk of cleanup from the end vertex back to the start vertex through
\* treeEdges; ok is FALSE when it reads a field of treeEdges[plIndex] with
\* plIndex outside the array (a TypeError)
RECURSIVE PathWalk(_, _, _, _, _)
RECURSIVE PathScan(_, _, _, _, _)
PathWalk(av, place, plIndex, hops, path) ==
    IF place = av.startingVertex
    THEN [ok |-> TRUE, hops |-> hops, path |-> path]
    ELSE PathScan(av, place, plIndex, hops, path)

\* fault of the path walk: a hop is followed but not counted
PathScanNoCount(av, place, plIndex, hops, path) ==
    IF plIndex < 0 \/ plIndex >= Len(av.treeEdges)
    THEN [ok |-> FALSE, hops |-> hops, path |-> path]
    ELSE LET treeEdge == At(av.treeEdges, plIndex) IN
         IF place # treeEdge.vIndex
         THEN PathScan(av, place, plIndex - 1, hops, path)
         ELSE PathWalk(av, treeEdge.fromVIndex, plIndex - 1, hops,
                       Append(path, [place |-> place, via |-> treeEdge.connection]))

PathScan(av, place, plIndex, hops, path) ==
    IF plIndex < 0 \/ plIndex >= Len(av.treeEdges)
    THEN [ok |-> FALSE, hops |-> hops, path |-> path]
    ELSE LET treeEdge == At(av.treeEdges, plIndex) IN
         IF place # treeEdge.vIndex
         THEN PathScan(av, place, plIndex - 1, hops, path)
         ELSE PathWalk(av, treeEdge.fromVIndex, plIndex - 1, hops + 1,
                       Append(path, [place |-> place, via |-> treeEdge.connection]))

cleanup(m) ==
    LET av == m.thisAV IN
    IF av.stoppedBecause = "FoundPath"
    THEN LET w == PathWalk(av, av.endingVertex, Len(av.treeEdges) - 1, 0, <<>>) IN
         IF w.ok
         THEN GotoIterationDone(m, [av EXCEPT !.foundPath = w.path, !.hops = w.hops],
                                "DONE")
         ELSE Throw(m, [av EXCEPT !.foundPath = w.path])
    ELSE GotoIterationDone(m, av, "DONE")

\* the labels of avActions
avActionLabels ==
    {"START", "checkAllComponentsDone", "checkComponentDone", "checkEndAdded",
     "checkLDVEmpty", "LDVEmpty", "getPlaceFromLDV", "checkAdded", "wasAdded",
     "wasNotAdded", "checkNeighborsLoopTop", "checkNeighborsLoopIf",
     "checkNeighborsLoopIfTrue", "checkNeighborsLoopIfFalse", "finalizeComponent",
     "checkAnyUnadded", "startNewComponent", "doneToTrue", "cleanup"}

\* hdxAV.execCounts = []: no id has a count
NoExecCounts == [id \in avActionLabels |-> 0]

\* the ids of the chunks of pseudocode in the element pseudoText: none when
\* it is empty, else those setupCode lays out for the stopping condition
pseudoIds(pseudoText) ==
    IF pseudoText = "" THEN {}
    ELSE {"START", "getPlaceFromLDV", "checkAdded", "wasAdded", "wasNotAdded",
          "checkNeighborsLoopTop", "checkNeighborsLoopIf",
          "checkNeighborsLoopIfTrue", "checkNeighborsLoopIfFalse"}
         \cup (IF pseudoText = "StopAtEnd"
               THEN {"checkEndAdded", "checkLDVEmpty", "LDVEmpty"}
               ELSE IF pseudoText = "FindReachable" THEN {"checkComponentDone"}
               ELSE {"checkAllComponentsDone", "checkComponentDone",
                     "finalizeComponent", "checkAnyUnadded", "startNewComponent",
                     "doneToTrue"})

\* highlightPseudocode(id, vs): the execution count of a chunk on display
highlightPseudocode(m, id) ==
    IF id \in pseudoIds(m.ui.pseudoText)
    THEN LET count == m.hdxAV.execCounts[id] + 1 IN
         [m EXCEPT !.hdxAV.execCounts[id] = count,
                   !.hdxAV.maxExecCount = IF count > @ THEN count ELSE @,
                   !.hdxAV.execCountRecolor =
                       IF count > m.hdxAV.maxExecCount THEN TRUE ELSE @]
    ELSE m

\* unhighlightPseudocode(): the recoloring reads the style of the chunk of
\* every counted id, a TypeError when the chunk is not on display
unhighlightPseudocode(m) ==
    IF m.hdxAV.execCountRecolor
    THEN [m EXCEPT !.hdxAV.execCountRecolor = FALSE,
                   !.thrown = \E id \in avActionLabels :
                                 /\ m.hdxAV.execCounts[id] > 0
                                 /\ id \notin pseudoIds(m.ui.pseudoText)]
    ELSE m

\* currentAction.code(thisAV) for the action labelled label; every code but
\* that of cleanup calls highlightPseudocode(this.label, ...)
avActionCode(label, m0, r) ==
    LET m == IF label = "cleanup" THEN m0 ELSE highlightPseudocode(m0, label) IN
    CASE label = "START" -> START(m)
      [] label = "checkAllComponentsDone" -> checkAllComponentsDone(m)
      [] label = "checkComponentDone" -> checkComponentDone(m)
      [] label = "checkEndAdded" -> checkEndAdded(m)
      [] label = "checkLDVEmpty" -> checkLDVEmpty(m)
      [] label = "LDVEmpty" -> LDVEmpty(m)
      [] label = "getPlaceFromLDV" -> getPlaceFromLDV(m, r)
      [] label = "checkAdded" -> checkAdded(m)
      [] label = "wasAdded" -> wasAdded(m)
      [] label = "wasNotAdded" -> wasNotAdded(m)
      [] label = "checkNeighborsLoopTop" -> checkNeighborsLoopTop(m)
      [] label = "checkNeighborsLoopIf" -> checkNeighborsLoopIf(m)
      [] label = "checkNeighborsLoopIfTrue" -> checkNeighborsLoopIfTrue(m)
      [] label = "checkNeighborsLoopIfFalse" -> checkNeighborsLoopIfFalse(m)
      [] label = "finalizeComponent" -> finalizeComponent(m)
      [] label = "checkAnyUnadded" -> checkAnyUnadded(m)
      [] label = "startNewComponent" -> startNewComponent(m)
      [] label = "doneToTrue" -> doneToTrue(m)
      [] label = "cleanup" -> cleanup(m)

(***************************************************************************)
(* hdxAV: the scheduler.  The operators return the set of machines the     *)
(* call can end in, one for each outcome of Math.random().                 *)
(***************************************************************************)
\* hdxAV.setStatus(newStatus): a change to one of the data-loaded statuses
\* empties the element algOptions
setStatus(m, newStatus) ==
    [m EXCEPT !.hdxAV.status = newStatus,
              !.ui.algOptions =
                  IF newStatus \in {GRAPH_LOADED, WPT_LOADED}
                     /\ m.hdxAV.status # newStatus
                  THEN FALSE ELSE @]

\* fault of paused(): the status is not looked at
pausedNever(m) == FALSE

\* hdxAV.paused()
paused(m) == m.hdxAV.status = AV_PAUSED

\* the outcomes of Math.random() that matter to the action about to run
RandomChoices(m) ==
    IF m.hdxAV.nextAction = "getPlaceFromLDV" /\ m.thisAV.ldv.type = RANDOM
    THEN RandomIndices(m.thisAV.ldv)
    ELSE {0}

\* history: does the code of the action write iterationDone = true
SetsIterationDone(label, m, r) ==
    avActionCode(label, [m EXCEPT !.hdxAV.iterationDone = FALSE], r).hdxAV.iterationDone

\* history: one more action has been executed
Counted(m, setsDone) ==
    [m EXCEPT !.steps = @ + 1, !.sinceIter = IF setsDone THEN 0 ELSE @ + 1]

\* the code of the actions draws on the map and in the tables of the graph
\* file; once other data has been loaded in its place, what the code does
\* is not followed
GraphShown(m) == m.ui.datatable = "graph"

\* oneAction once the action has been found: unhighlightPseudocode, then
\* the code of the action
Execute(m) ==
    LET u == unhighlightPseudocode(m) IN
    IF u.thrown THEN {u}
    ELSE IF ~GraphShown(u) THEN {[u EXCEPT !.hung = TRUE]}
    ELSE {Counted(avActionCode(u.hdxAV.nextAction, u, r),
                  SetsIterationDone(u.hdxAV.nextAction, u, r)) :
             r \in RandomChoices(u)}

\* fault of oneAction: with no action of that label the call returns after
\* setStatus(AV_PAUSED)
oneActionSkipsBad(m) ==
    IF m.hdxAV.nextAction \in avActionLabels THEN Execute(m)
    ELSE {[setStatus(m, AV_PAUSED) EXCEPT !.hdxAV.iterationDone = TRUE]}

\* hdxAV.oneAction(thisAV); with no action of that label, the alert and
\* setStatus(AV_PAUSED) are followed by the TypeError of null.code
oneAction(m) ==
    IF m.hdxAV.nextAction \in avActionLabels THEN Execute(m)
    ELSE {[setStatus(unhighlightPseudocode(m), AV_PAUSED) EXCEPT !.thrown = TRUE]}

Stopped(m) == m.thrown \/ m.hung

\* the loop while (!hdxAV.iterationDone) of oneIteration: active are the
\* machines about to test the loop condition
RECURSIVE IterationLoop(_, _, _)
IterationLoop(active, finished, fuel) ==
    LET leaving == {m \in active : m.hdxAV.iterationDone \/ Stopped(m)}
        staying == active \ leaving
    IN IF staying = {} THEN finished \cup leaving
       ELSE IF fuel = 0
       THEN finished \cup leaving \cup {[m EXCEPT !.hung = TRUE] : m \in staying}
       ELSE IterationLoop(UNION {oneAction(m) : m \in staying},
                          finished \cup leaving, fuel - 1)

\* fault of oneIteration: one more action is executed after the loop
oneIterationAndOne(m) ==
    UNION {IF Stopped(x) THEN {x} ELSE oneAction(x) :
             x \in IterationLoop({[m EXCEPT !.hdxAV.iterationDone = FALSE]}, {},
                                 MaxActions)}

\* fault of oneIteration: iterationDone is not cleared before the loop
oneIterationNoReset(m) == IterationLoop({m}, {}, MaxActions)

\* hdxAV.oneIteration(thisAV)
oneIteration(m) ==
    IterationLoop({[m EXCEPT !.hdxAV.iterationDone = FALSE]}, {}, MaxActions)

\* the loop while (hdxAV.nextAction != "DONE") of nextStep
RECURSIVE CompletionLoop(_, _, _)
CompletionLoop(active, finished, fuel) ==
    LET leaving == {m \in active : m.hdxAV.nextAction = "DONE" \/ Stopped(m)}
        staying == active \ leaving
    IN IF staying = {} THEN finished \cup leaving
       ELSE IF fuel = 0
       THEN finished \cup leaving \cup {[m EXCEPT !.hung = TRUE] : m \in staying}
       ELSE CompletionLoop(UNION {oneIteration(m) : m \in staying},
                           finished \cup leaving, fuel - 1)

\* fault of nextStep: a timeout is set whether or not the walk is at DONE
ScheduleAlways(m) ==
    IF Stopped(m) THEN m
    ELSE [m EXCEPT !.timers = @ + 1, !.lastTimeout = m.hdxAV.delay]

\* the end of nextStep: set the next timeout, or hide the pseudocode and
\* complete
ScheduleOrComplete(m) ==
    IF Stopped(m) THEN m
    ELSE IF m.hdxAV.nextAction # "DONE"
    THEN [m EXCEPT !.timers = @ + 1, !.lastTimeout = m.hdxAV.delay]
    ELSE setStatus([m EXCEPT !.ui.pseudoCheckbox = FALSE], AV_COMPLETE)

\* fault of nextStep: traceActions is not looked at
nextStepIterates(m) ==
    IF paused(m) THEN {m}
    ELSE IF m.hdxAV.delay = 0 THEN CompletionLoop({m}, {}, MaxIterations)
    ELSE LET m1 == IF m.hdxAV.delay = -1 THEN setStatus(m, AV_PAUSED) ELSE m
         IN {ScheduleOrComplete(m2) : m2 \in oneIteration(m1)}

\* hdxAV.nextStep(thisAV)
nextStep(m) ==
    IF paused(m) THEN {m}
    ELSE IF m.hdxAV.delay = 0 THEN CompletionLoop({m}, {}, MaxIterations)
    ELSE LET m1 == IF m.hdxAV.delay = -1 THEN setStatus(m, AV_PAUSED) ELSE m
             worked == IF m1.hdxAV.traceActions THEN oneAction(m1)
                       ELSE oneIteration(m1)
         IN {ScheduleOrComplete(m2) : m2 \in worked}

(***************************************************************************)
(* Event handlers                                                          *)
(***************************************************************************)
Machine ==
    [hdxAV |-> hdxAV, thisAV |-> thisAV, ui |-> ui, timers |-> timers,
     thrown |-> FALSE, hung |-> hung, steps |-> steps, sinceIter |-> sinceIter,
     lastTimeout |-> lastTimeout]

Becomes(m) ==
    /\ hdxAV' = m.hdxAV
    /\ thisAV' = m.thisAV
    /\ ui' = m.ui
    /\ timers' = m.timers
    /\ thrown' = m.thrown
    /\ hung' = m.hung
    /\ steps' = m.steps
    /\ sinceIter' = m.sinceIter
    /\ lastTimeout' = m.lastTimeout

\* history: the handler named event starts from the present state; fired is
\* "stale" or "fresh" for a continuation and "none" for the other handlers;
\* runs counts the presses of start
Handles(event, fired) ==
    last' = [event |-> event, fired |-> fired, hdxAV |-> hdxAV,
             thisAV |-> thisAV, timers |-> timers, steps |-> steps,
             runs |-> IF event = "start" THEN last.runs + 1 ELSE last.runs]

\* showHidePseudocode()
showHidePseudocode(m) ==
    [m EXCEPT !.hdxAV.traceActions = m.ui.pseudoCheckbox]

\* fault of startPausePressed: the execution counts of the run before stay
keepExecCounts(m) == m

\* startPausePressed: hdxAV.execCounts = []; hdxAV.maxExecCount = 0
clearExecCounts(m) ==
    [m EXCEPT !.hdxAV.execCounts = NoExecCounts, !.hdxAV.maxExecCount = 0]

\* startPausePressed() while an algorithm is selected and not yet started
StartPressed ==
    /\ ~hung
    /\ hdxAV.status = AV_SELECTED
    /\ LET m0 == setStatus(Machine, AV_RUNNING)
           m1 == showHidePseudocode(clearExecCounts(
                    [m0 EXCEPT !.thisAV = prepToStart(@, m0.ui),
                               !.ui.pseudoText = m0.ui.stoppingCondition]))
           m2 == [m1 EXCEPT !.hdxAV.nextAction = "START", !.steps = 0,
                            !.sinceIter = 0]
       IN \E m3 \in nextStep(m2) : Becomes(m3)
    /\ Handles("start", "none")
    /\ UNCHANGED <<linearVars, waypoints, graphEdges, stale>>

\* a continuation set by setTimeout in nextStep fires: one set before the
\* latest pause press, or one set after it
TimerFires ==
    /\ ~hung
    /\ timers > 0
    /\ \E m2 \in nextStep([Machine EXCEPT !.timers = @ - 1]) : Becomes(m2)
    /\ \/ /\ stale > 0
          /\ stale' = stale - 1
          /\ Handles("timer", "stale")
       \/ /\ timers > stale
          /\ stale' = stale
          /\ Handles("timer", "fresh")
    /\ UNCHANGED <<linearVars, waypoints, graphEdges>>

\* speedChanged(): the speedChanger offers run to completion (0), single
\* step (-1) and positive delays
speedChanged(m, d) == [m EXCEPT !.hdxAV.delay = d]

\* hdxAV.delay as the page load leaves it
NoAlgorithmDelay == 50

\* no data loaded, no algorithm selected
NoAlgorithm ==
    /\ waypoints = <<>>
    /\ graphEdges = <<>>
    /\ ui = [startPoint |-> 0, endPoint |-> 1, stoppingCondition |-> "StopAtEnd",
             traversalDiscipline |-> "BFS", pseudoCheckbox |-> TRUE,
             panel |-> "load", datatable |-> "", pseudoText |-> "",
             algOptions |-> FALSE]
    /\ hdxAV = [status |-> NO_DATA, delay |-> NoAlgorithmDelay, traceActions |-> TRUE,
                iterationDone |-> FALSE, nextAction |-> "UNDEFINED",
                currentAV |-> "none", execCounts |-> NoExecCounts,
                maxExecCount |-> 0, execCountRecolor |-> FALSE]
    /\ thisAV = null
    /\ timers = 0
    /\ thrown = FALSE
    /\ hung = FALSE
    /\ steps = 0
    /\ sinceIter = 0
    /\ lastTimeout = null
    /\ stale = 0
    /\ last = [event |-> "none", fired |-> "none", hdxAV |-> hdxAV,
               thisAV |-> thisAV, timers |-> timers, steps |-> steps,
               runs |-> 0]

LinearInit ==
    /\ ldv \in {HDXLinear(t) : t \in hdxLinearTypes}
    /\ retval = undefined
    /\ stamps = <<>>
    /\ addedLog = <<>>
    /\ removedLog = <<>>
    /\ prev = [items |-> <<>>, stamps |-> <<>>]
    /\ lastOp = "none"
    /\ runLen = 0
    /\ NoAlgorithm

\* a caller invokes ldv.add(e)
Add ==
    /\ ldv.addCount < MaxAdds
    /\ \E v \in Vals :
         LET e == SeedEntry(0, v) IN
         /\ ldv' = LinearAdd(ldv, e)
         /\ stamps' = SpliceIn(stamps, AddIndex(ldv, e), ldv.addCount + 1)
         /\ addedLog' = Append(addedLog, e)
    /\ prev' = [items |-> ldv.items, stamps |-> stamps]
    /\ lastOp' = "add"
    /\ runLen' = 0
    /\ UNCHANGED <<retval, removedLog>>
    /\ UNCHANGED avVars

\* a caller invokes ldv.remove() while the container holds an entry
Remove ==
    /\ ~isEmpty(ldv)
    /\ \E r \in RandomIndices(ldv) :
         LET res == LinearRemove(ldv, r)
             i == RemoveIndex(ldv, r) IN
         /\ ldv' = res.ldv
         /\ retval' = res.retval
         /\ stamps' = SpliceOut(stamps, i)
         /\ removedLog' = Append(removedLog, [e |-> res.retval, stamp |-> stamps[i + 1]])
    /\ prev' = [items |-> ldv.items, stamps |-> stamps]
    /\ lastOp' = "remove"
    /\ runLen' = runLen + 1
    /\ UNCHANGED addedLog
    /\ UNCHANGED avVars

\* a caller invokes ldv.remove() while the container is empty
RemoveEmpty ==
    /\ isEmpty(ldv)
    /\ ldv.removeCount < ldv.addCount + MaxEmptyRemoves
    /\ \E r \in RandomIndices(ldv) :
         LET res == LinearRemove(ldv, r) IN
         /\ ldv' = res.ldv
         /\ retval' = res.retval
    /\ prev' = [items |-> ldv.items, stamps |-> stamps]
    /\ lastOp' = "removeEmpty"
    /\ UNCHANGED <<stamps, addedLog, removedLog, runLen>>
    /\ UNCHANGED avVars

LinearNext == Add \/ Remove \/ RemoveEmpty

SpecLinear == LinearInit /\ [][LinearNext]_vars

(***************************************************************************)
(* A traversal run: a graph is loaded, an algorithm and its options are    *)
(* chosen, start is pressed and the timers fire                            *)
(***************************************************************************)
\* the edges a graph file may list, in file order: a cycle through the
\* first four vertices
CandidateEdges == <<[v1 |-> 0, v2 |-> 1], [v1 |-> 1, v2 |-> 2], [v1 |-> 2, v2 |-> 3],
                    [v1 |-> 3, v2 |-> 0]>>

\* the edge lines of the file that lists candidate k with length len[k],
\* leaving out the candidates with len[k] = 0
RECURSIVE EdgeLines(_, _)
EdgeLines(len, k) ==
    IF k > Len(CandidateEdges) THEN <<>>
    ELSE (IF len[k] > 0
          THEN <<[v1 |-> CandidateEdges[k].v1, v2 |-> CandidateEdges[k].v2,
                  len |-> len[k]]>>
          ELSE <<>>)
         \o EdgeLines(len, k + 1)

\* the algorithms offered by the AlgorithmSelection control that are built
\* on hdxTraversalsSpanningAVCommon, with the traversalDiscipline options
Algorithms ==
    {[value |-> "traversals", discipline |-> d] : d \in {"BFS", "DFS", "RFS"}}
    \cup {[value |-> "dijkstra", discipline |-> "BFS"],
          [value |-> "prim", discipline |-> "BFS"]}

\* the options setupUI puts in the stoppingCondition control
StoppingConditions(value) ==
    IF InitialAV(value).supportFindAllComponents
    THEN {"StopAtEnd", "FindReachable", "FindAll"}
    ELSE {"StopAtEnd", "FindReachable"}

IdleLinear ==
    /\ ldv = null
    /\ retval = undefined
    /\ stamps = <<>>
    /\ addedLog = <<>>
    /\ removedLog = <<>>
    /\ prev = [items |-> <<>>, stamps |-> <<>>]
    /\ lastOp = "none"
    /\ runLen = 0

\* the page has been loaded
TravInit ==
    /\ IdleLinear
    /\ NoAlgorithm

\* a graph file is read: parseTMGContents
LoadGraph ==
    /\ ~hung
    /\ hdxAV.status = NO_DATA
    /\ \E len \in [1 .. Len(CandidateEdges) -> 0 .. MaxLen] :
         /\ graphEdges' = EdgeLines(len, 1)
         /\ waypoints' = parseTMGContents(NumV, EdgeLines(len, 1))
    /\ hdxAV' = [hdxAV EXCEPT !.status = GRAPH_LOADED]
    /\ ui' = [ui EXCEPT !.panel = "select", !.datatable = "graph"]
    /\ thrown' = FALSE
    /\ Handles("load", "none")
    /\ UNCHANGED <<linearVars, thisAV, timers, hung, steps, sinceIter,
                   lastTimeout, stale>>

\* an algorithm is picked (algorithmSelectionChanged), its options and the
\* pseudocode checkbox are set, and Done is pressed (algOptionsDonePressed);
\* the end point keeps its initial value 1 unless the stopping condition
\* enables it
AlgOptionsDone ==
    /\ ~hung
    /\ hdxAV.status = GRAPH_LOADED
    /\ \E alg \in Algorithms :
         /\ \E sc \in StoppingConditions(alg.value), s \in 0 .. (numV - 1),
               t \in BOOLEAN :
              \E e \in (IF sc = "StopAtEnd" THEN 0 .. (numV - 1) ELSE {1}) :
                 ui' = [startPoint |-> s, endPoint |-> e, stoppingCondition |-> sc,
                        traversalDiscipline |-> alg.discipline,
                        pseudoCheckbox |-> t, panel |-> "top",
                        datatable |-> ui.datatable, pseudoText |-> ui.pseudoText,
                        algOptions |-> TRUE]
         /\ thisAV' = InitialAV(alg.value)
         /\ hdxAV' = [hdxAV EXCEPT !.status = AV_SELECTED,
                                   !.currentAV = alg.value]
    /\ thrown' = FALSE
    /\ Handles("options", "none")
    /\ UNCHANGED <<linearVars, waypoints, graphEdges, timers, hung, steps, sinceIter,
                   lastTimeout, stale>>

\* the speed is set to run to completion before the run is started
SpeedChanged ==
    /\ ~hung
    /\ hdxAV.status = AV_SELECTED
    /\ hdxAV.delay # 0
    /\ Becomes(speedChanged(Machine, 0))
    /\ Handles("speed", "none")
    /\ UNCHANGED <<linearVars, waypoints, graphEdges, stale>>

TravNext == LoadGraph \/ AlgOptionsDone \/ SpeedChanged \/ StartPressed \/ TimerFires

SpecTrav == TravInit /\ [][TravNext]_vars

(***************************************************************************)
(* The controls of a run: start, pause and resume are pressed, the speed   *)
(* is changed and the timers fire, in any order                            *)
(***************************************************************************)
\* the values of the speedChanger options used: single step, run to
\* completion and the default delay
Delays == {-1, 0, NoAlgorithmDelay}

\* startPausePressed() while the algorithm is running
PausePressed ==
    /\ ~hung
    /\ hdxAV.status = AV_RUNNING
    /\ Becomes(setStatus(Machine, AV_PAUSED))
    /\ stale' = timers
    /\ Handles("pause", "none")
    /\ UNCHANGED <<linearVars, waypoints, graphEdges>>

\* startPausePressed() while the algorithm is paused
ResumePressed ==
    /\ ~hung
    /\ hdxAV.status = AV_PAUSED
    /\ timers < MaxTimers
    /\ \E m \in nextStep(setStatus(Machine, AV_RUNNING)) : Becomes(m)
    /\ Handles("resume", "none")
    /\ UNCHANGED <<linearVars, waypoints, graphEdges, stale>>

\* speedChanged() once an algorithm is selected, started or not
SpeedSelected ==
    /\ ~hung
    /\ hdxAV.status \in {AV_SELECTED, AV_RUNNING, AV_PAUSED}
    /\ \E d \in Delays \ {hdxAV.delay} : Becomes(speedChanged(Machine, d))
    /\ Handles("speed", "none")
    /\ UNCHANGED <<linearVars, waypoints, graphEdges, stale>>

\* the graph file lists the four edges of the cycle with length 1, and
\* breadth-first search from vertex 0 has been selected
CtlInit ==
    /\ IdleLinear
    /\ graphEdges = EdgeLines([k \in 1 .. Len(CandidateEdges) |-> 1], 1)
    /\ waypoints = parseTMGContents(NumV, graphEdges)
    /\ \E sc \in {"StopAtEnd", "FindReachable"}, t \in BOOLEAN :
          ui = [startPoint |-> 0, endPoint |-> 2, stoppingCondition |-> sc,
                traversalDiscipline |-> "BFS", pseudoCheckbox |-> t,
                panel |-> "top", datatable |-> "graph", pseudoText |-> "",
                algOptions |-> TRUE]
    /\ hdxAV = [status |-> AV_SELECTED, delay |-> NoAlgorithmDelay,
                traceActions |-> TRUE, iterationDone |-> FALSE,
                nextAction |-> "UNDEFINED", currentAV |-> "traversals",
                execCounts |-> NoExecCounts, maxExecCount |-> 0,
                execCountRecolor |-> FALSE]
    /\ thisAV = InitialAV("traversals")
    /\ timers = 0
    /\ thrown = FALSE
    /\ hung = FALSE
    /\ steps = 0
    /\ sinceIter = 0
    /\ lastTimeout = null
    /\ stale = 0
    /\ last = [event |-> "options", fired |-> "none",
               hdxAV |-> [hdxAV EXCEPT !.status = GRAPH_LOADED],
               thisAV |-> thisAV, timers |-> 0, steps |-> 0, runs |-> 0]

CtlNext ==
    StartPressed \/ TimerFires \/ PausePressed \/ ResumePressed \/ SpeedSelected

SpecCtl == CtlInit /\ [][CtlNext]_vars

(***************************************************************************)
(* Single stepping: the speedChanger is set to delay -1 before the run     *)
(* is started and stays there                                              *)
(***************************************************************************)
StepInit ==
    /\ IdleLinear
    /\ graphEdges = EdgeLines([k \in 1 .. Len(CandidateEdges) |-> 1], 1)
    /\ waypoints = parseTMGContents(NumV, graphEdges)
    /\ \E sc \in {"StopAtEnd", "FindReachable"}, t \in BOOLEAN :
          ui = [startPoint |-> 0, endPoint |-> 2, stoppingCondition |-> sc,
                traversalDiscipline |-> "BFS", pseudoCheckbox |-> t,
                panel |-> "top", datatable |-> "graph", pseudoText |-> "",
                algOptions |-> TRUE]
    /\ hdxAV = [status |-> AV_SELECTED, delay |-> -1,
                traceActions |-> TRUE, iterationDone |-> FALSE,
                nextAction |-> "UNDEFINED", currentAV |-> "traversals",
                execCounts |-> NoExecCounts, maxExecCount |-> 0,
                execCountRecolor |-> FALSE]
    /\ thisAV = InitialAV("traversals")
    /\ timers = 0
    /\ thrown = FALSE
    /\ hung = FALSE
    /\ steps = 0
    /\ sinceIter = 0
    /\ lastTimeout = null
    /\ stale = 0
    /\ last = [event |-> "speed", fired |-> "none",
               hdxAV |-> [hdxAV EXCEPT !.delay = NoAlgorithmDelay],
               thisAV |-> thisAV, timers |-> 0, steps |-> 0, runs |-> 0]

StepNext == StartPressed \/ TimerFires \/ ResumePressed

SpecStep == StepInit /\ [][StepNext]_vars

(***************************************************************************)
(* The page: runs are started, reset and started again, data is loaded in  *)
(* between, and the timers fire in any order.  The graph file holds the    *)
(* edge 0-1 and the isolated vertices beyond; the algorithm picked in the  *)
(* AlgorithmSelection control is the graph traversal throughout, so that   *)
(* thisAV is the one object hdxGraphTraversalsAV.                          *)
(***************************************************************************)
PageEdges == EdgeLines([k \in 1 .. Len(CandidateEdges) |-> IF k = 1 THEN 1 ELSE 0], 1)

\* parseWPTContents: way points without edges, as many as the graph has
\* vertices
parseWPTContents(n) == [k \in 1 .. n |-> [edgeList |-> <<>>]]

\* cleanupAVControlPanel()
cleanupAVControlPanel(m) == [m EXCEPT !.ui.pseudoText = ""]

\* hdxTraversalsSpanningAVCommon.setupUI: the option controls with their
\* initial values, and an empty table of found entries
setupUI(m) ==
    [m EXCEPT !.ui.startPoint = 0, !.ui.endPoint = 1,
              !.ui.stoppingCondition = "StopAtEnd",
              !.ui.traversalDiscipline = "BFS",
              !.ui.algOptions = TRUE,
              !.thisAV.foundEntries = <<>>,
              !.thisAV.foundPath = <<>>,
              !.thisAV.hops = -1]

\* algorithmSelectionChanged()
algorithmSelectionChanged(m) ==
    setupUI([cleanupAVControlPanel(m) EXCEPT !.hdxAV.currentAV = "traversals"])

\* resetPressed()
resetPressed(m) ==
    LET m1 == IF m.hdxAV.status = AV_RUNNING THEN setStatus(m, AV_PAUSED) ELSE m
    IN [algorithmSelectionChanged(m1) EXCEPT !.ui.panel = "select"]

\* loadDataOptionsPressed()
loadDataOptionsPressed(m) ==
    LET m1 == IF m.hdxAV.status = AV_RUNNING THEN setStatus(m, AV_PAUSED) ELSE m
        m2 == IF m1.hdxAV.status \in {AV_PAUSED, AV_COMPLETE, GRAPH_LOADED}
              THEN algorithmSelectionChanged(m1) ELSE m1
    IN [m2 EXCEPT !.ui.panel = "load"]

\* algOptionsDonePressed() with the stopping condition sc chosen
algOptionsDonePressed(m, sc) ==
    [setStatus(m, AV_SELECTED) EXCEPT !.ui.stoppingCondition = sc,
                                      !.ui.panel = "top"]

\* the stopping conditions chosen on the page
PageConditions == {"StopAtEnd"}

\* the graph file has been read and graph traversal has been picked
PageInit ==
    /\ IdleLinear
    /\ graphEdges = PageEdges
    /\ waypoints = parseTMGContents(NumV, graphEdges)
    /\ ui = [startPoint |-> 0, endPoint |-> 1, stoppingCondition |-> "StopAtEnd",
             traversalDiscipline |-> "BFS", pseudoCheckbox |-> TRUE,
             panel |-> "select", datatable |-> "graph", pseudoText |-> "",
             algOptions |-> TRUE]
    /\ hdxAV = [status |-> GRAPH_LOADED, delay |-> NoAlgorithmDelay,
                traceActions |-> TRUE, iterationDone |-> FALSE,
                nextAction |-> "UNDEFINED", currentAV |-> "traversals",
                execCounts |-> NoExecCounts, maxExecCount |-> 0,
                execCountRecolor |-> FALSE]
    /\ thisAV = InitialAV("traversals")
    /\ timers = 0
    /\ thrown = FALSE
    /\ hung = FALSE
    /\ steps = 0
    /\ sinceIter = 0
    /\ lastTimeout = null
    /\ stale = 0
    /\ last = [event |-> "select", fired |-> "none", hdxAV |-> hdxAV,
               thisAV |-> thisAV, timers |-> 0, steps |-> 0, runs |-> 0]

\* the algorithm is picked again in the AlgorithmSelection control
PageSelect ==
    /\ ~hung
    /\ ui.panel = "select"
    /\ ~ui.algOptions
    /\ Becomes(algorithmSelectionChanged(Machine))
    /\ Handles("select", "none")
    /\ UNCHANGED <<linearVars, waypoints, graphEdges, stale>>

\* the options are set and Done is pressed
PageOptionsDone ==
    /\ ~hung
    /\ ui.panel = "select"
    /\ ui.algOptions
    /\ \E sc \in PageConditions :
          Becomes(algOptionsDonePressed(Machine, sc))
    /\ Handles("options", "none")
    /\ UNCHANGED <<linearVars, waypoints, graphEdges, stale>>

\* the start button of the top control panel
PageStart ==
    /\ ui.panel = "top"
    /\ last.runs < MaxRuns
    /\ StartPressed

\* the Reset AV button of the top control panel; the continuations pending
\* belong to the run given up
ResetPressed ==
    /\ ~hung
    /\ ui.panel = "top"
    /\ Becomes(resetPressed(Machine))
    /\ stale' = timers
    /\ Handles("reset", "none")
    /\ UNCHANGED <<linearVars, waypoints, graphEdges>>

\* the Load Data Options button of the top control panel
LoadDataOptionsPressed ==
    /\ ~hung
    /\ ui.panel \in {"top", "topData"}
    /\ Becomes(loadDataOptionsPressed(Machine))
    /\ Handles("loadOptions", "none")
    /\ UNCHANGED <<linearVars, waypoints, graphEdges, stale>>

\* processContents of the graph (.tmg) file
LoadGraphFile ==
    /\ ~hung
    /\ ui.panel = "load"
    /\ graphEdges' = PageEdges
    /\ waypoints' = parseTMGContents(NumV, PageEdges)
    /\ Becomes([setStatus(Machine, GRAPH_LOADED) EXCEPT
                   !.ui.panel = "select", !.ui.datatable = "graph"])
    /\ Handles("load", "none")
    /\ UNCHANGED <<linearVars, stale>>

PageNext ==
    \/ PageSelect
    \/ PageOptionsDone
    \/ PageStart
    \/ TimerFires
    \/ ResetPressed
    \/ LoadDataOptionsPressed
    \/ LoadGraphFile

SpecPage == PageInit /\ [][PageNext]_vars

(***************************************************************************)
(* One run, and way points loaded over its graph: the controls of the top  *)
(* control panel are used while it is on display, Load Data Options leads  *)
(* to the load data panel, a way point file is read there, and the timers  *)
(* fire in any order.                                                      *)
(***************************************************************************)
\* processContents of a way point (.wpt) file
LoadWaypointFile ==
    /\ ~hung
    /\ ui.panel = "load"
    /\ graphEdges' = <<>>
    /\ waypoints' = parseWPTContents(NumV)
    /\ Becomes([setStatus(Machine, WPT_LOADED) EXCEPT
                   !.ui.panel = "topData", !.ui.datatable = "raw"])
    /\ Handles("load", "none")
    /\ UNCHANGED <<linearVars, stale>>

\* the start button of the top control panel
LoadStart ==
    /\ ui.panel = "top"
    /\ StartPressed

\* the start button while the algorithm is running
LoadPause ==
    /\ ui.panel = "top"
    /\ PausePressed

\* the start button while the algorithm is paused
LoadResume ==
    /\ ui.panel = "top"
    /\ ResumePressed

\* the speedChanger of the top control panel
LoadSpeed ==
    /\ ui.panel = "top"
    /\ SpeedSelected

LoadNext ==
    \/ LoadStart
    \/ LoadPause
    \/ LoadResume
    \/ LoadSpeed
    \/ TimerFires
    \/ LoadDataOptionsPressed
    \/ LoadWaypointFile

SpecLoad == CtlInit /\ [][LoadNext]_vars

(***************************************************************************)
(* The action tables of the five algorithm objects, walked as oneAction    *)
(* walks them: the action nextAction names is looked up by its label and   *)
(* its code leaves the label of the action to follow in nextAction.  Only  *)
(* the choice of the label is kept of the code.                            *)
(***************************************************************************)
\* what nextAction is said to hold after a path that does not assign it
Unassigned == "UNASSIGNED"

\* fault of the vertex extremes table: checkNextCategory leaves nextAction
\* alone when the last category has been checked
VertexExtremesActionsKept ==
    "START" :> {"forLoopTop"}
    @@ "forLoopTop" :> {"cleanup", "checkNextCategory"}
    @@ "checkNextCategory" :> {"updateNextCategory", "forLoopBottom", Unassigned}
    @@ "updateNextCategory" :> {"forLoopBottom", "checkNextCategory"}
    @@ "forLoopBottom" :> {"forLoopTop"}
    @@ "cleanup" :> {"DONE"}

\* the avActions of hdxVertexExtremesSearchAV: for each label the values
\* its code assigns to hdxAV.nextAction on the paths through it
VertexExtremesActions ==
    "START" :> {"forLoopTop"}
    @@ "forLoopTop" :> {"cleanup", "checkNextCategory"}
    @@ "checkNextCategory" :> {"updateNextCategory", "forLoopBottom", "checkNextCategory"}
    @@ "updateNextCategory" :> {"forLoopBottom", "checkNextCategory"}
    @@ "forLoopBottom" :> {"forLoopTop"}
    @@ "cleanup" :> {"DONE"}

\* the avActions of hdxEdgeExtremesSearchAV: for each label the values
\* its code assigns to hdxAV.nextAction on the paths through it
EdgeExtremesActions ==
    "START" :> {"forLoopTop"}
    @@ "forLoopTop" :> {"cleanup", "checkNextCategory"}
    @@ "checkNextCategory" :> {"updateNextCategory", "forLoopBottom", "checkNextCategory"}
    @@ "updateNextCategory" :> {"forLoopBottom", "checkNextCategory"}
    @@ "forLoopBottom" :> {"forLoopTop"}
    @@ "cleanup" :> {"DONE"}

\* the avActions of hdxExtremePairsAV: for each label the values
\* its code assigns to hdxAV.nextAction on the paths through it
ExtremePairsActions ==
    "START" :> {"v1forLoopTop"}
    @@ "v1forLoopTop" :> {"cleanup", "v2forLoopTop"}
    @@ "v2forLoopTop" :> {"v1forLoopBottom", "computeDistance"}
    @@ "computeDistance" :> {"checkCloseLeader"}
    @@ "checkCloseLeader" :> {"newCloseLeader", "checkFarLeader"}
    @@ "newCloseLeader" :> {"checkFarLeader"}
    @@ "checkFarLeader" :> {"newFarLeader", "v2forLoopBottom"}
    @@ "newFarLeader" :> {"v2forLoopBottom"}
    @@ "v2forLoopBottom" :> {"v2forLoopTop"}
    @@ "v1forLoopBottom" :> {"v1forLoopTop"}
    @@ "cleanup" :> {"DONE"}

\* the avActions of hdxTraversalsSpanningAVCommon: for each label the values
\* its code assigns to hdxAV.nextAction on the paths through it
TraversalsActions ==
    "START" :> {"checkEndAdded", "checkComponentDone", "checkAllComponentsDone"}
    @@ "checkAllComponentsDone" :> {"cleanup", "checkComponentDone"}
    @@ "checkComponentDone" :> {"finalizeComponent", "cleanup", "getPlaceFromLDV"}
    @@ "checkEndAdded" :> {"cleanup", "checkLDVEmpty"}
    @@ "checkLDVEmpty" :> {"LDVEmpty", "getPlaceFromLDV"}
    @@ "LDVEmpty" :> {"cleanup"}
    @@ "getPlaceFromLDV" :> {"checkAdded"}
    @@ "checkAdded" :> {"wasAdded", "wasNotAdded"}
    @@ "wasAdded" :> {"checkEndAdded", "checkComponentDone"}
    @@ "wasNotAdded" :> {"checkNeighborsLoopTop"}
    @@ "checkNeighborsLoopTop" :> {"checkNeighborsLoopIf", "checkEndAdded", "checkComponentDone"}
    @@ "checkNeighborsLoopIf" :> {"checkNeighborsLoopIfTrue", "checkNeighborsLoopIfFalse"}
    @@ "checkNeighborsLoopIfTrue" :> {"checkNeighborsLoopIf", "checkEndAdded", "checkComponentDone"}
    @@ "checkNeighborsLoopIfFalse" :> {"checkNeighborsLoopIf", "checkEndAdded", "checkComponentDone"}
    @@ "finalizeComponent" :> {"checkAnyUnadded"}
    @@ "checkAnyUnadded" :> {"startNewComponent", "doneToTrue"}
    @@ "startNewComponent" :> {"checkAllComponentsDone"}
    @@ "doneToTrue" :> {"checkAllComponentsDone"}
    @@ "cleanup" :> {"DONE"}

\* the avActions of hdxBFConvexHullAV: for each label the values
\* its code assigns to hdxAV.nextAction on the paths through it
BFConvexHullActions ==
    "START" :> {"v1forLoopTop"}
    @@ "v1forLoopTop" :> {"cleanup", "v2forLoopTop"}
    @@ "v2forLoopTop" :> {"v1forLoopTop", "calculateLine"}
    @@ "calculateLine" :> {"vtestforLoopTop"}
    @@ "vtestforLoopTop" :> {"checkEliminated", "computeCheckVal"}
    @@ "computeCheckVal" :> {"isCheckVal0"}
    @@ "isCheckVal0" :> {"checkBetween", "checkFirst"}
    @@ "checkBetween" :> {"checkFirst", "isColinearNotBetween"}
    @@ "isColinearNotBetween" :> {"checkEliminated"}
    @@ "checkFirst" :> {"isCheckValNegative", "checkSameSide"}
    @@ "isCheckValNegative" :> {"setNegative", "isCheckValPositive"}
    @@ "setNegative" :> {"vtestforLoopTop"}
    @@ "isCheckValPositive" :> {"setPositive", "vtestforLoopTop"}
    @@ "setPositive" :> {"vtestforLoopTop"}
    @@ "checkSameSide" :> {"notSameSide", "vtestforLoopTop"}
    @@ "notSameSide" :> {"checkEliminated"}
    @@ "checkEliminated" :> {"v2forLoopTop", "addToHull"}
    @@ "addToHull" :> {"v2forLoopTop"}
    @@ "cleanup" :> {"DONE"}

\* the tables by the value of the algorithm objects; hdxGraphTraversalsAV,
\* hdxDijkstraAV and hdxPrimAV share the table of their prototype
avActions ==
    "vertex" :> VertexExtremesActions
    @@ "edge" :> EdgeExtremesActions
    @@ "closestpairs" :> ExtremePairsActions
    @@ "traversals" :> TraversalsActions
    @@ "bfhull" :> BFConvexHullActions

\* an algorithm is selected and nextAction is START, as startPausePressed
\* leaves it
TableInit ==
    /\ IdleLinear
    /\ waypoints = <<>>
    /\ graphEdges = <<>>
    /\ ui = [startPoint |-> 0, endPoint |-> 1, stoppingCondition |-> "StopAtEnd",
             traversalDiscipline |-> "BFS", pseudoCheckbox |-> TRUE,
             panel |-> "top", datatable |-> "graph", pseudoText |-> "",
             algOptions |-> TRUE]
    /\ \E value \in DOMAIN avActions :
          hdxAV = [status |-> AV_RUNNING, delay |-> NoAlgorithmDelay,
                   traceActions |-> TRUE, iterationDone |-> FALSE,
                   nextAction |-> "START", currentAV |-> value,
                   execCounts |-> NoExecCounts, maxExecCount |-> 0,
                   execCountRecolor |-> FALSE]
    /\ thisAV = null
    /\ timers = 0
    /\ thrown = FALSE
    /\ hung = FALSE
    /\ steps = 0
    /\ sinceIter = 0
    /\ lastTimeout = null
    /\ stale = 0
    /\ last = [event |-> "start", fired |-> "none", hdxAV |-> hdxAV,
               thisAV |-> thisAV, timers |-> 0, steps |-> 0, runs |-> 1]

\* oneAction: the action labelled nextAction is found and its code takes
\* one of its paths
TableAction ==
    /\ steps < MaxActions
    /\ hdxAV.nextAction \in DOMAIN avActions[hdxAV.currentAV]
    /\ \E value \in avActions[hdxAV.currentAV][hdxAV.nextAction] :
          /\ hdxAV' = [hdxAV EXCEPT !.nextAction =
                                       IF value = Unassigned THEN @ ELSE value]
          /\ Handles("action", IF value = Unassigned THEN "kept" ELSE "assigned")
    /\ steps' = steps + 1
    /\ UNCHANGED <<linearVars, waypoints, graphEdges, ui, thisAV, timers, thrown,
                   hung, sinceIter, lastTimeout, stale>>

TableNext == TableAction

SpecTables == TableInit /\ [][TableNext]_vars

(***************************************************************************)
(* hdxBFConvexHullAV: the brute-force convex hull of the waypoints.  The   *)
(* waypoints have integer coordinates lat and lon; markers, polylines and  *)
(* control panel entries are left out.                                     *)
(***************************************************************************)
\* the fields of hdxBFConvexHullAV as the page load leaves them; hullv2 and
\* checkVal are not properties of the object yet
InitialHullAV ==
    [value |-> "bfhull",
     hullPoints |-> <<>>,
     hullSegmentEndpoints |-> <<>>,
     hullv1 |-> 0,
     hullv2 |-> undefined,
     hullvtest |-> 0,
     a |-> 0,
     b |-> 0,
     c |-> 0,
     checkVal |-> undefined,
     segmentsConsidered |-> 0,
     checkValThisSegment |-> 0,
     checkValComputations |-> 0,
     eliminated |-> FALSE,
     lookingFor |-> "UNKNOWN",
     hullTable |-> <<>>]           \* the rows of the hullsegments entry

\* squaredDistance(o1, o2)
squaredDistance(o1, o2) ==
    (o1.lon - o2.lon) * (o1.lon - o2.lon) + (o1.lat - o2.lat) * (o1.lat - o2.lat)

\* isBetween(o1, o2, o3): both comparisons are with the distance from o3
\* to o2
isBetween(o1, o2, o3) ==
    /\ squaredDistance(o3, o2) < squaredDistance(o1, o2)
    /\ squaredDistance(o3, o2) < squaredDistance(o1, o2)

HullSTART(m) ==
    GotoIterationDone(m, [m.thisAV EXCEPT !.hullv1 = -1,
                                          !.segmentsConsidered = 0,
                                          !.checkValComputations = 0,
                                          !.hullSegmentEndpoints = <<>>,
                                          !.hullPoints = <<>>],
                      "v1forLoopTop")

Hullv1forLoopTop(m) ==
    LET av == [m.thisAV EXCEPT !.hullv1 = @ + 1] IN
    IF av.hullv1 = numV - 1 THEN GotoIterationDone(m, av, "cleanup")
    ELSE GotoIterationDone(m, [av EXCEPT !.hullv2 = av.hullv1], "v2forLoopTop")

Hullv2forLoopTop(m) ==
    LET av == [m.thisAV EXCEPT !.hullv2 = @ + 1] IN
    IF av.hullv2 = numV THEN GotoIterationDone(m, av, "v1forLoopTop")
    ELSE GotoIterationDone(m, av, "calculateLine")

calculateLine(m) ==
    LET av == m.thisAV
        pointv1 == At(waypoints, av.hullv1)
        pointv2 == At(waypoints, av.hullv2)
    IN Goto(m, [av EXCEPT !.a = pointv2.lat - pointv1.lat,
                          !.b = pointv1.lon - pointv2.lon,
                          !.c = pointv1.lon * pointv2.lat
                                  - pointv1.lat * pointv2.lon,
                          !.segmentsConsidered = @ + 1,
                          !.checkValThisSegment = 0,
                          !.eliminated = FALSE,
                          !.lookingFor = "UNKNOWN",
                          !.hullvtest = -1],
            "vtestforLoopTop")

\* the loop while (hullvtest == hullv1 || hullvtest == hullv2) hullvtest++
RECURSIVE SkipEnds(_, _)
SkipEnds(av, vtest) ==
    IF vtest = av.hullv1 \/ vtest = av.hullv2 THEN SkipEnds(av, vtest + 1)
    ELSE vtest

vtestforLoopTop(m) ==
    LET av == [m.thisAV EXCEPT !.hullvtest = SkipEnds(m.thisAV, @ + 1)] IN
    IF av.hullvtest = numV THEN Goto(m, av, "checkEliminated")
    ELSE Goto(m, av, "computeCheckVal")

computeCheckVal(m) ==
    LET av == m.thisAV
        pointvtest == At(waypoints, av.hullvtest)
    IN Goto(m, [av EXCEPT !.checkVal = av.a * pointvtest.lon
                                         + av.b * pointvtest.lat - av.c,
                          !.checkValComputations = @ + 1,
                          !.checkValThisSegment = @ + 1],
            "isCheckVal0")

isCheckVal0(m) ==
    IF m.thisAV.checkVal = 0 THEN Goto(m, m.thisAV, "checkBetween")
    ELSE Goto(m, m.thisAV, "checkFirst")

checkBetween(m) ==
    LET av == m.thisAV IN
    IF isBetween(At(waypoints, av.hullv1), At(waypoints, av.hullv2),
                 At(waypoints, av.hullvtest))
    THEN Goto(m, av, "checkFirst")
    ELSE Goto(m, av, "isColinearNotBetween")

isColinearNotBetween(m) ==
    Goto(m, [m.thisAV EXCEPT !.eliminated = TRUE], "checkEliminated")

checkFirst(m) ==
    IF m.thisAV.lookingFor = "UNKNOWN" THEN Goto(m, m.thisAV, "isCheckValNegative")
    ELSE Goto(m, m.thisAV, "checkSameSide")

isCheckValNegative(m) ==
    IF m.thisAV.checkVal < 0 THEN Goto(m, m.thisAV, "setNegative")
    ELSE Goto(m, m.thisAV, "isCheckValPositive")

setNegative(m) ==
    Goto(m, [m.thisAV EXCEPT !.lookingFor = "NEGATIVE"], "vtestforLoopTop")

isCheckValPositive(m) ==
    IF m.thisAV.checkVal > 0 THEN Goto(m, m.thisAV, "setPositive")
    ELSE Goto(m, m.thisAV, "vtestforLoopTop")

setPositive(m) ==
    Goto(m, [m.thisAV EXCEPT !.lookingFor = "POSITIVE"], "vtestforLoopTop")

checkSameSide(m) ==
    LET av == m.thisAV IN
    IF \/ av.lookingFor = "POSITIVE" /\ av.checkVal < 0
       \/ av.lookingFor = "NEGATIVE" /\ av.checkVal > 0
    THEN Goto(m, av, "notSameSide")
    ELSE Goto(m, av, "vtestforLoopTop")

notSameSide(m) ==
    Goto(m, [m.thisAV EXCEPT !.eliminated = TRUE], "checkEliminated")

checkEliminated(m) ==
    IF m.thisAV.eliminated THEN Goto(m, m.thisAV, "v2forLoopTop")
    ELSE Goto(m, m.thisAV, "addToHull")

\* hullPoints.includes(v) || hullPoints.push(v)
PushNew(points, v) ==
    IF \E k \in 1 .. Len(points) : points[k] = v THEN points
    ELSE Append(points, v)

addToHull(m) ==
    LET av == m.thisAV IN
    Goto(m, [av EXCEPT !.hullPoints = PushNew(PushNew(@, av.hullv1), av.hullv2),
                       !.hullSegmentEndpoints = Append(@, <<av.hullv1, av.hullv2>>)],
         "v2forLoopTop")

\* one pass of the loop for (i = length-1; i >= 0; i--) of cleanup over the
\* segments not yet chained: a segment with an end at connectTo is removed
\* and connectTo moves to its other end
RECURSIVE ChainPass(_, _)
ChainPass(c, i) ==
    IF i < 0 THEN c
    ELSE LET segment == At(c.endpoints, i) IN
         IF segment[1] = c.connectTo
         THEN ChainPass([c EXCEPT !.endpoints = SpliceOut(@, i),
                                  !.connectTo = segment[2],
                                  !.table = Append(@, segment[2])], i - 1)
         ELSE IF segment[2] = c.connectTo
         THEN ChainPass([c EXCEPT !.endpoints = SpliceOut(@, i),
                                  !.connectTo = segment[1],
                                  !.table = Append(@, segment[1])], i - 1)
         ELSE ChainPass(c, i - 1)

\* the loop while (hullSegmentEndpoints.length > 0) of cleanup: a pass that
\* removes no segment leaves everything the loop reads as it was, and the
\* loop does not end
RECURSIVE ChainLoop(_)
ChainLoop(c) ==
    IF Len(c.endpoints) = 0 THEN [c EXCEPT !.ends = TRUE]
    ELSE LET pass == ChainPass(c, Len(c.endpoints) - 1) IN
         IF pass = c THEN [c EXCEPT !.ends = FALSE]
         ELSE ChainLoop(pass)

\* cleanup: lastSegment is undefined when no segment was added, and
\* lastSegment[0] throws a TypeError
Hullcleanup(m) ==
    LET av == m.thisAV
        n == Len(av.hullSegmentEndpoints)
    IN IF n = 0 THEN Throw(m, av)
       ELSE LET lastSegment == av.hullSegmentEndpoints[n]
                chained == ChainLoop([endpoints |-> SubSeq(av.hullSegmentEndpoints,
                                                           1, n - 1),
                                      connectTo |-> lastSegment[2],
                                      table |-> <<lastSegment[1], lastSegment[2]>>,
                                      ends |-> TRUE])
                av1 == [av EXCEPT !.hullSegmentEndpoints = chained.endpoints]
            IN IF chained.ends
               THEN GotoIterationDone(m, [av1 EXCEPT !.hullTable = chained.table],
                                      "DONE")
               ELSE [m EXCEPT !.thisAV = av1, !.hung = TRUE]

\* the code of the action labelled label of hdxBFConvexHullAV.avActions
hullActionCode(label, m) ==
    CASE label = "START" -> HullSTART(m)
      [] label = "v1forLoopTop" -> Hullv1forLoopTop(m)
      [] label = "v2forLoopTop" -> Hullv2forLoopTop(m)
      [] label = "calculateLine" -> calculateLine(m)
      [] label = "vtestforLoopTop" -> vtestforLoopTop(m)
      [] label = "computeCheckVal" -> computeCheckVal(m)
      [] label = "isCheckVal0" -> isCheckVal0(m)
      [] label = "checkBetween" -> checkBetween(m)
      [] label = "isColinearNotBetween" -> isColinearNotBetween(m)
      [] label = "checkFirst" -> checkFirst(m)
      [] label = "isCheckValNegative" -> isCheckValNegative(m)
      [] label = "setNegative" -> setNegative(m)
      [] label = "isCheckValPositive" -> isCheckValPositive(m)
      [] label = "setPositive" -> setPositive(m)
      [] label = "checkSameSide" -> checkSameSide(m)
      [] label = "notSameSide" -> notSameSide(m)
      [] label = "checkEliminated" -> checkEliminated(m)
      [] label = "addToHull" -> addToHull(m)
      [] label = "cleanup" -> Hullcleanup(m)

\* the points a waypoint file may hold
Points == [lat : 0 .. MaxLat, lon : 0 .. MaxLon]

\* the waypoint files: two or more points, no two of them at the same place
PointFiles ==
    UNION {{w \in [1 .. n -> Points] :
              \A j, k \in 1 .. n : j # k => w[j] # w[k]} : n \in 2 .. MaxPoints}

\* waypoints are loaded, the convex hull is selected and start is pressed:
\* nextAction is START
HullInit ==
    /\ IdleLinear
    /\ waypoints \in PointFiles
    /\ graphEdges = <<>>
    /\ ui = [startPoint |-> 0, endPoint |-> 1, stoppingCondition |-> "StopAtEnd",
             traversalDiscipline |-> "BFS", pseudoCheckbox |-> TRUE,
             panel |-> "top", datatable |-> "graph", pseudoText |-> "",
             algOptions |-> FALSE]
    /\ hdxAV = [status |-> AV_RUNNING, delay |-> NoAlgorithmDelay,
                traceActions |-> TRUE, iterationDone |-> FALSE,
                nextAction |-> "START", currentAV |-> "bfhull",
                execCounts |-> NoExecCounts, maxExecCount |-> 0,
                execCountRecolor |-> FALSE]
    /\ thisAV = InitialHullAV
    /\ timers = 0
    /\ thrown = FALSE
    /\ hung = FALSE
    /\ steps = 0
    /\ sinceIter = 0
    /\ lastTimeout = null
    /\ stale = 0
    /\ last = [event |-> "start", fired |-> "none", hdxAV |-> hdxAV,
               thisAV |-> thisAV, timers |-> 0, steps |-> 0, runs |-> 1]

\* oneAction: the code of the action nextAction names is executed
HullAction ==
    /\ ~hung
    /\ ~thrown
    /\ hdxAV.nextAction \in DOMAIN BFConvexHullActions
    /\ Becomes(Counted(hullActionCode(hdxAV.nextAction, Machine),
                       hullActionCode(hdxAV.nextAction, Machine).hdxAV.iterationDone))
    /\ Handles("action", "assigned")
    /\ UNCHANGED <<linearVars, waypoints, graphEdges, stale>>

HullNext == HullAction

SpecHull == HullInit /\ [][HullNext]_vars

(***************************************************************************)
(* hdxExtremePairsAV: the closest and the farthest pair of waypoints.      *)
(* The object is created once with the page; runs follow one another on    *)
(* it, and waypoint files are read in between.                             *)
(***************************************************************************)
\* distanceInMiles(lat1, lon1, lat2, lon2): a distance that grows with the
\* separation of the two points
distanceInMiles(lat1, lon1, lat2, lon2) ==
    squaredDistance([lat |-> lat1, lon |-> lon1], [lat |-> lat2, lon |-> lon2])

\* Number.MAX_VALUE: above every distance
MAX_VALUE == MaxLat * MaxLat + MaxLon * MaxLon + 1

\* the fields of hdxExtremePairsAV as the page load leaves them
InitialPairsAV ==
    [value |-> "closestpairs", v1 |-> 0, v2 |-> 0, d_this |-> 0,
     closest |-> <<-1, -1>>, d_closest |-> MAX_VALUE,
     farthest |-> <<-1, -1>>, d_farthest |-> 0]

\* updateMarkerAndTable(waypointNum, ...): markers[waypointNum] is
\* undefined for a number that is not a waypoint of the loaded data, and
\* setIcon on it is a TypeError
MarkerMissing(waypointNum) == waypointNum \notin 0 .. numV - 1

PairsSTART(m) ==
    GotoIterationDone(m, [m.thisAV EXCEPT !.v1 = -1], "v1forLoopTop")

Pairsv1forLoopTop(m) ==
    LET av == [m.thisAV EXCEPT !.v1 = @ + 1] IN
    IF av.v1 = numV - 1 THEN Goto(m, av, "cleanup")
    ELSE Goto(m, [av EXCEPT !.v2 = av.v1], "v2forLoopTop")

Pairsv2forLoopTop(m) ==
    LET av == [m.thisAV EXCEPT !.v2 = @ + 1] IN
    IF av.v2 = numV THEN GotoIterationDone(m, av, "v1forLoopBottom")
    ELSE GotoIterationDone(m, av, "computeDistance")

computeDistance(m) ==
    LET av == m.thisAV IN
    Goto(m, [av EXCEPT !.d_this = distanceInMiles(At(waypoints, av.v1).lat,
                                                  At(waypoints, av.v1).lon,
                                                  At(waypoints, av.v2).lat,
                                                  At(waypoints, av.v2).lon)],
         "checkCloseLeader")

checkCloseLeader(m) ==
    IF m.thisAV.d_this < m.thisAV.d_closest THEN Goto(m, m.thisAV, "newCloseLeader")
    ELSE Goto(m, m.thisAV, "checkFarLeader")

newCloseLeader(m) ==
    LET av == m.thisAV IN
    IF /\ av.closest[1] # -1
       /\ MarkerMissing(av.closest[1]) \/ MarkerMissing(av.closest[2])
    THEN Throw(m, av)
    ELSE Goto(m, [av EXCEPT !.closest = <<av.v1, av.v2>>,
                            !.d_closest = av.d_this],
              "checkFarLeader")

checkFarLeader(m) ==
    IF m.thisAV.d_this > m.thisAV.d_farthest THEN Goto(m, m.thisAV, "newFarLeader")
    ELSE Goto(m, m.thisAV, "v2forLoopBottom")

newFarLeader(m) ==
    LET av == m.thisAV IN
    IF /\ av.farthest[1] # -1
       /\ MarkerMissing(av.farthest[1]) \/ MarkerMissing(av.farthest[2])
    THEN Throw(m, av)
    ELSE Goto(m, [av EXCEPT !.farthest = <<av.v1, av.v2>>,
                            !.d_farthest = av.d_this],
              "v2forLoopBottom")

v2forLoopBottom(m) == GotoIterationDone(m, m.thisAV, "v2forLoopTop")

v1forLoopBottom(m) == Goto(m, m.thisAV, "v1forLoopTop")

Pairscleanup(m) == GotoIterationDone(m, m.thisAV, "DONE")

\* the code of the action labelled label of hdxExtremePairsAV.avActions
pairsActionCode(label, m) ==
    CASE label = "START" -> PairsSTART(m)
      [] label = "v1forLoopTop" -> Pairsv1forLoopTop(m)
      [] label = "v2forLoopTop" -> Pairsv2forLoopTop(m)
      [] label = "computeDistance" -> computeDistance(m)
      [] label = "checkCloseLeader" -> checkCloseLeader(m)
      [] label = "newCloseLeader" -> newCloseLeader(m)
      [] label = "checkFarLeader" -> checkFarLeader(m)
      [] label = "newFarLeader" -> newFarLeader(m)
      [] label = "v2forLoopBottom" -> v2forLoopBottom(m)
      [] label = "v1forLoopBottom" -> v1forLoopBottom(m)
      [] label = "cleanup" -> Pairscleanup(m)

\* nextStep with a positive delay and traceActions: one action, then the
\* next timeout or completion
PairsStep(m) ==
    LET done == pairsActionCode(m.hdxAV.nextAction, m) IN
    ScheduleOrComplete(Counted(done, done.hdxAV.iterationDone))

\* the waypoint files read for this algorithm: points along one parallel
PairFiles == {w \in PointFiles : \A k \in 1 .. Len(w) : w[k].lat = 0}

\* a waypoint file has been read, the closest and farthest pairs are picked
\* and Done has been pressed
PairsInit ==
    /\ IdleLinear
    /\ waypoints \in PairFiles
    /\ graphEdges = <<>>
    /\ ui = [startPoint |-> 0, endPoint |-> 1, stoppingCondition |-> "StopAtEnd",
             traversalDiscipline |-> "BFS", pseudoCheckbox |-> TRUE,
             panel |-> "top", datatable |-> "waypoints", pseudoText |-> "",
             algOptions |-> FALSE]
    /\ hdxAV = [status |-> AV_SELECTED, delay |-> NoAlgorithmDelay,
                traceActions |-> TRUE, iterationDone |-> FALSE,
                nextAction |-> "UNDEFINED", currentAV |-> "closestpairs",
                execCounts |-> NoExecCounts, maxExecCount |-> 0,
                execCountRecolor |-> FALSE]
    /\ thisAV = InitialPairsAV
    /\ timers = 0
    /\ thrown = FALSE
    /\ hung = FALSE
    /\ steps = 0
    /\ sinceIter = 0
    /\ lastTimeout = null
    /\ stale = 0
    /\ last = [event |-> "select", fired |-> "none", hdxAV |-> hdxAV,
               thisAV |-> thisAV, timers |-> 0, steps |-> 0, runs |-> 0]

\* startPausePressed with status AV_SELECTED: the run starts at START on
\* the object as the last run left it
PairsStart ==
    /\ ~thrown
    /\ hdxAV.status = AV_SELECTED
    /\ last.runs < MaxRuns
    /\ Becomes(PairsStep([setStatus(Machine, AV_RUNNING)
                            EXCEPT !.hdxAV.nextAction = "START",
                                   !.ui.pseudoCheckbox = TRUE]))
    /\ Handles("start", "none")
    /\ UNCHANGED <<linearVars, waypoints, graphEdges, stale>>

\* the timeout of nextStep fires
PairsTimer ==
    /\ ~thrown
    /\ timers > 0
    /\ hdxAV.status = AV_RUNNING
    /\ Becomes(PairsStep([Machine EXCEPT !.timers = @ - 1]))
    /\ Handles("timer", "worked")
    /\ UNCHANGED <<linearVars, waypoints, graphEdges, stale>>

\* resetPressed on the finished run
PairsReset ==
    /\ hdxAV.status = AV_COMPLETE
    /\ ui.panel = "top"
    /\ Becomes([cleanupAVControlPanel(Machine) EXCEPT !.ui.panel = "select"])
    /\ Handles("reset", "none")
    /\ UNCHANGED <<linearVars, waypoints, graphEdges, stale>>

\* loadDataOptionsPressed on the finished run
PairsLoadDataOptions ==
    /\ hdxAV.status = AV_COMPLETE
    /\ ui.panel = "top"
    /\ Becomes([cleanupAVControlPanel(Machine) EXCEPT !.ui.panel = "load"])
    /\ Handles("load", "none")
    /\ UNCHANGED <<linearVars, waypoints, graphEdges, stale>>

\* a waypoint file is read in the load data panel
PairsReadFile ==
    /\ ui.panel = "load"
    /\ waypoints' \in PairFiles
    /\ Becomes([setStatus(Machine, WPT_LOADED)
                  EXCEPT !.ui.panel = "select", !.ui.datatable = "waypoints"])
    /\ Handles("load", "read")
    /\ UNCHANGED <<linearVars, graphEdges, stale>>

\* algOptionsDonePressed with the closest and farthest pairs picked
PairsOptionsDone ==
    /\ ui.panel = "select"
    /\ Becomes([setStatus(Machine, AV_SELECTED) EXCEPT !.ui.panel = "top"])
    /\ Handles("done", "none")
    /\ UNCHANGED <<linearVars, waypoints, graphEdges, stale>>

PairsNext ==
    \/ PairsStart
    \/ PairsTimer
    \/ PairsReset
    \/ PairsLoadDataOptions
    \/ PairsReadFile
    \/ PairsOptionsDone

SpecPairs == PairsInit /\ [][PairsNext]_vars

(***************************************************************************)
(* Properties of the container                                             *)
(***************************************************************************)
ValsOf(log) == [k \in 1 .. Len(log) |-> log[k].val]
RemovedVals == [k \in 1 .. Len(removedLog) |-> removedLog[k].e.val]
RemovedStamps == [k \in 1 .. Len(removedLog) |-> removedLog[k].stamp]
LastRemoved == removedLog[Len(removedLog)]
SeqMax(s) == CHOOSE x \in {s[k] : k \in 1 .. Len(s)} : \A k \in 1 .. Len(s) : s[k] <= x
SeqMin(s) == CHOOSE x \in {s[k] : k \in 1 .. Len(s)} : \A k \in 1 .. Len(s) : x <= s[k]

\* C1: in a PRIORITY_QUEUE with the comparator a.val < b.val, an entry that
\* remove() hands out has a value no larger than that of any entry held when
\* it was called; the removes since the last add come out in non-decreasing
\* value order; and 5,3,8,1 added in that order and then removed come out as
\* 1,3,5,8.
C1_PriorityRemovesMinimum ==
    ldv.type = PRIORITY_QUEUE =>
        /\ lastOp = "remove" =>
             /\ \E k \in 1 .. Len(prev.items) : retval = prev.items[k]
             /\ \A k \in 1 .. Len(prev.items) : retval.val <= prev.items[k].val
        /\ \A k \in (Len(removedLog) - runLen + 1) .. (Len(removedLog) - 1) :
             RemovedVals[k] <= RemovedVals[k + 1]
        /\ (ValsOf(addedLog) = <<5, 3, 8, 1>> /\ runLen = 4) =>
             RemovedVals = <<1, 3, 5, 8>>

C1_Witness ==
    /\ ldv.type = PRIORITY_QUEUE
    /\ ValsOf(addedLog) = <<5, 3, 8, 1>>
    /\ runLen = 4
    /\ lastOp = "remove"

\* C2: in a STACK, remove() hands out the most recently added entry among
\* those held when it was called; when no remove precedes an add, the
\* removed entries are the added ones in reverse order.
C2_StackRemovesNewest ==
    ldv.type = STACK =>
        /\ lastOp = "remove" =>
             /\ LastRemoved.stamp = SeqMax(prev.stamps)
             /\ retval = addedLog[LastRemoved.stamp]
        /\ Len(removedLog) = runLen =>
             \A k \in 1 .. runLen :
                /\ removedLog[k].stamp = Len(addedLog) + 1 - k
                /\ removedLog[k].e = addedLog[Len(addedLog) + 1 - k]

C2_Witness ==
    /\ ldv.type = STACK
    /\ lastOp = "remove"
    /\ Len(removedLog) = runLen
    /\ runLen = 3
    /\ ValsOf(addedLog) = <<5, 3, 8>>

\* C3: in a QUEUE, remove() hands out the earliest added entry among those
\* held when it was called, so the k-th removed entry is the k-th added
\* one whatever the interleaving of add and remove.
C3_QueueRemovesOldest ==
    ldv.type = QUEUE =>
        /\ lastOp = "remove" => LastRemoved.stamp = SeqMin(prev.stamps)
        /\ \A k \in 1 .. Len(removedLog) :
              /\ removedLog[k].stamp = k
              /\ removedLog[k].e = addedLog[k]

C3_Witness ==
    /\ ldv.type = QUEUE
    /\ lastOp = "remove"
    /\ Len(removedLog) = 2
    /\ runLen = 1
    /\ Len(ldv.items) = 1
    /\ ValsOf(addedLog) = <<5, 3, 8>>

\* C4: the items of a PRIORITY_QUEUE are always ordered so that no entry
\* has a strictly larger value than an entry nearer the front; the entry
\* at the removal end therefore has a minimal value.
C4_PrioritySorted ==
    ldv.type = PRIORITY_QUEUE =>
        \A i, j \in 1 .. Len(ldv.items) :
            i < j => ~(ldv.items[j].val > ldv.items[i].val)

C4_Witness ==
    /\ ldv.type = PRIORITY_QUEUE
    /\ lastOp = "add"
    /\ Len(ldv.items) = 3
    /\ stamps[2] = 3
    /\ ldv.items[1].val > ldv.items[2].val
    /\ ldv.items[2].val > ldv.items[3].val
    /\ removedLog # <<>>

\* C5: of two entries of equal value held by a PRIORITY_QUEUE the one added
\* earlier lies nearer the removal end, and remove() hands out an entry
\* added before every held entry of the same value.
C5_PriorityTiesFifo ==
    ldv.type = PRIORITY_QUEUE =>
        /\ \A i, j \in 1 .. Len(ldv.items) :
              (i < j /\ ldv.items[i].val = ldv.items[j].val) => stamps[i] > stamps[j]
        /\ lastOp = "remove" =>
              \A k \in 1 .. Len(prev.items) :
                  prev.items[k].val = retval.val => LastRemoved.stamp <= prev.stamps[k]

C5_Witness ==
    /\ ldv.type = PRIORITY_QUEUE
    /\ lastOp = "remove"
    /\ \E k \in 1 .. Len(ldv.items) : ldv.items[k].val = retval.val
    /\ \E k \in 1 .. Len(ldv.items) : ldv.items[k].val > retval.val

\* C6: isEmpty() is true exactly when addCount - removeCount is zero.
C6_IsEmptyIffNetZero ==
    isEmpty(ldv) <=> (ldv.addCount - ldv.removeCount = 0)

\* C7: remove() on an empty container fails: it does not return normally
\* with an entry-less result and it is not counted as a removal.
C7_RemoveOnEmptyFails ==
    lastOp = "removeEmpty" =>
        /\ retval # undefined
        /\ ldv.removeCount = Len(removedLog)

\* C8: in a RANDOM container remove() takes out exactly one of the entries
\* held and leaves the others as they were and in the same order, and
\* every held position can be the one taken.
C8_RandomRemovesAnyOne ==
    ldv.type = RANDOM =>
        /\ lastOp = "remove" =>
              \E k \in 1 .. Len(prev.items) :
                 /\ retval = prev.items[k]
                 /\ LastRemoved.stamp = prev.stamps[k]
                 /\ ldv.items = SpliceOut(prev.items, k - 1)
                 /\ stamps = SpliceOut(prev.stamps, k - 1)
        /\ \A k \in 1 .. Len(ldv.items) :
              ENABLED (Remove /\ removedLog' =
                         Append(removedLog, [e |-> ldv.items[k], stamp |-> stamps[k]]))

C8_Witness ==
    /\ ldv.type = RANDOM
    /\ lastOp = "remove"
    /\ Len(prev.items) = 3
    /\ LastRemoved.stamp = prev.stamps[2]
    /\ Len(ldv.items) = 2

(***************************************************************************)
(* Properties of a traversal run                                           *)
(***************************************************************************)
\* what a finished run shows: the vertices added, the rows of the table of
\* places found, the path and hop count of cleanup, the number of
\* components and the reason for stopping
Results(av) ==
    [addedV |-> av.addedV, foundEntries |-> av.foundEntries,
     foundPath |-> av.foundPath, hops |-> av.hops,
     components |-> av.componentNum + 1, stoppedBecause |-> av.stoppedBecause]

\* BFS, DFS, Dijkstra and Prim: every discipline but RFS
Deterministic ==
    hdxAV.currentAV = "traversals" => ui.traversalDiscipline # "RFS"

\* the machines in which start pressed with delay 0 on the same graph and
\* options ends
CompletionRun ==
    nextStep([hdxAV |-> [hdxAV EXCEPT !.status = AV_RUNNING, !.delay = 0,
                                      !.iterationDone = FALSE,
                                      !.nextAction = "START"],
              thisAV |-> prepToStart(InitialAV(hdxAV.currentAV), ui),
              ui |-> ui, timers |-> 0, thrown |-> FALSE, hung |-> FALSE,
              steps |-> 0, sinceIter |-> 0, lastTimeout |-> null])

\* C9: a run of BFS, DFS, Dijkstra or Prim that reaches DONE, stepped by
\* action or by iteration, shows the same added vertices, table rows, path,
\* component count and stoppedBecause as the run to completion (delay 0) of
\* the same graph and options.
C9_CompletionEqualsStepping ==
    (hdxAV.nextAction = "DONE" /\ Deterministic) =>
        \A m \in CompletionRun :
            /\ m.hdxAV.nextAction = "DONE"
            /\ Results(m.thisAV) = Results(thisAV)

C9_Witness ==
    /\ hdxAV.nextAction = "DONE"
    /\ hdxAV.delay # 0
    /\ hdxAV.traceActions
    /\ hdxAV.currentAV = "dijkstra"
    /\ thisAV.stoppedBecause = "FoundPath"
    /\ thisAV.hops = 2
    /\ thisAV.numVSpanningTree = 4

\* the number of actions a walk over a graph of numV vertices and numE
\* edges can take: START and cleanup, six for each entry that leaves the
\* container, two for each end of an edge, three for the last test of the
\* loop and five for each component
WalkBound == 6 + 11 * numV + 10 * numE

\* the number of actions between two that set iterationDone: the removal
\* and addition of a vertex and two for each of its edges
IterationBound == 6 + 2 * numE

\* C10: for every graph, start and end vertex, stopping condition and
\* discipline the walk takes a bounded number of actions, at most
\* IterationBound of them in a row without one that sets iterationDone; no
\* handler stays in its loop or throws; and a started run is at rest, with
\* no continuation pending, only when nextAction is DONE.
C10_WalkReachesDone ==
    /\ ~hung
    /\ ~thrown
    /\ steps <= WalkBound
    /\ sinceIter <= IterationBound
    /\ (hdxAV.status \in {AV_RUNNING, AV_COMPLETE} /\ timers = 0) =>
           hdxAV.nextAction = "DONE"

C10_Witness ==
    /\ hdxAV.status = AV_COMPLETE
    /\ steps > 30
    /\ hdxAV.nextAction = "DONE"
    /\ thisAV.stoppingCondition = "FindAll"
    /\ thisAV.componentNum = 2
    /\ ui.traversalDiscipline = "RFS"

(***************************************************************************)
(* Properties of the graph, for the claims about what a traversal finds    *)
(***************************************************************************)
Vertices == 0 .. (numV - 1)

EdgeEnds(connection) ==
    {At(graphEdges, connection).v1, At(graphEdges, connection).v2}

\* the vertices of S and those joined to one of them by an edge of E
Grow(S, E) == S \cup {v \in Vertices : \E u \in S, c \in E : EdgeEnds(c) = {u, v}}

RECURSIVE Closure(_, _)
Closure(S, E) == IF Grow(S, E) = S THEN S ELSE Closure(Grow(S, E), E)

AllEdges == 0 .. (numE - 1)

\* the connected component of vertex v, and the components of the graph
ComponentOf(v) == Closure({v}, AllEdges)
Components == {ComponentOf(v) : v \in Vertices}

\* the least number of edges on a path from the vertices of S to v, which
\* is reachable from S; d is the number for S itself
RECURSIVE HopDistance(_, _, _)
HopDistance(S, v, d) ==
    IF v \in S THEN d ELSE HopDistance(Grow(S, AllEdges), v, d + 1)

\* longer than every path without a repeated edge
RECURSIVE TotalLength(_)
TotalLength(k) == IF k = 0 THEN 1 ELSE graphEdges[k].len + TotalLength(k - 1)

SetMin(S) == CHOOSE x \in S : \A y \in S : x <= y

\* one round of relaxing every edge, and the fixed point of the rounds
Relax(d) ==
    [v \in Vertices |->
        SetMin({d[v]} \cup
               {d[p[1]] + At(graphEdges, p[2]).len :
                  p \in {q \in Vertices \X AllEdges : EdgeEnds(q[2]) = {q[1], v}}})]

RECURSIVE Settle(_)
Settle(d) == IF Relax(d) = d THEN d ELSE Settle(Relax(d))

\* the length of a shortest path from s to every vertex
ShortestFrom(s) ==
    Settle([v \in Vertices |-> IF v = s THEN 0 ELSE TotalLength(numE)])

AddedSet(av) == {v \in Vertices : At(av.addedV, v)}
SeqSet(s) == {s[k] : k \in 1 .. Len(s)}

\* a run has been started and has come to the action labelled label
RunAt(labels) == thisAV # null /\ hdxAV.nextAction \in labels

EndReachable == thisAV.endingVertex \in ComponentOf(thisAV.startingVertex)

\* C11: under StopAtEnd on a graph with no path from the start vertex to
\* the end vertex, a run that has stopped has stoppedBecause = SearchFailed,
\* an empty container and the end vertex not added.
C11_NoPathSearchFailed ==
    (/\ RunAt({"cleanup", "DONE"})
     /\ thisAV.stoppingCondition = "StopAtEnd"
     /\ ~EndReachable) =>
        /\ thisAV.stoppedBecause = "SearchFailed"
        /\ isEmpty(thisAV.ldv)
        /\ ~At(thisAV.addedV, thisAV.endingVertex)

C11_Witness ==
    /\ RunAt({"DONE"})
    /\ thisAV.stoppingCondition = "StopAtEnd"
    /\ ~EndReachable
    /\ thisAV.stoppedBecause = "SearchFailed"
    /\ thisAV.numVSpanningTree >= 2
    /\ isEmpty(thisAV.ldv)

\* place i of the path cleanup found, the start vertex following the last
PathPlace(av, i) ==
    IF i <= Len(av.foundPath) THEN av.foundPath[i].place ELSE av.startingVertex

TreeEntriesFor(av, v) ==
    {k \in 1 .. Len(av.treeEdges) : av.treeEdges[k].vIndex = v}

\* C12: under StopAtEnd with the end vertex reachable from the start, the
\* run stops with stoppedBecause = FoundPath, cleanup does not run off the
\* recorded tree entries, and the places it walks are end = p0, ..., pk =
\* start, where p(i+1) is the fromVertex of the one tree entry recorded for
\* p(i), the entry's edge joins the two, and the hop count reported is k.
C12_PathWalkedBack ==
    (/\ RunAt({"cleanup", "DONE"})
     /\ thisAV.stoppingCondition = "StopAtEnd"
     /\ EndReachable) =>
        /\ thisAV.stoppedBecause = "FoundPath"
        /\ ~thrown
        /\ hdxAV.nextAction = "DONE" =>
             /\ thisAV.hops = Len(thisAV.foundPath)
             /\ PathPlace(thisAV, 1) = thisAV.endingVertex
             /\ \A i \in 1 .. Len(thisAV.foundPath) :
                  /\ Cardinality(TreeEntriesFor(thisAV, PathPlace(thisAV, i))) = 1
                  /\ \A k \in TreeEntriesFor(thisAV, PathPlace(thisAV, i)) :
                       /\ thisAV.treeEdges[k].fromVIndex = PathPlace(thisAV, i + 1)
                       /\ thisAV.treeEdges[k].connection = thisAV.foundPath[i].via
                       /\ EdgeEnds(thisAV.foundPath[i].via) =
                             {PathPlace(thisAV, i), PathPlace(thisAV, i + 1)}

C12_Witness ==
    /\ RunAt({"DONE"})
    /\ thisAV.stoppingCondition = "StopAtEnd"
    /\ thisAV.stoppedBecause = "FoundPath"
    /\ thisAV.hops = 3
    /\ Len(thisAV.foundPath) = 3
    /\ ui.traversalDiscipline = "DFS"
    /\ hdxAV.currentAV = "traversals"

\* C13: under FindReachable the run stops exactly when checkComponentDone
\* finds the container empty, with stoppedBecause = FoundComponent, and the
\* vertices added are then exactly the connected component of the start
\* vertex.
C13_ReachableComponent ==
    (thisAV # null /\ thisAV.stoppingCondition = "FindReachable") =>
        /\ hdxAV.nextAction = "checkComponentDone" =>
             (checkComponentDone(Machine).hdxAV.nextAction = "cleanup"
                <=> isEmpty(thisAV.ldv))
        /\ hdxAV.nextAction \in {"cleanup", "DONE"} =>
             /\ isEmpty(thisAV.ldv)
             /\ thisAV.stoppedBecause = "FoundComponent"
             /\ AddedSet(thisAV) = ComponentOf(thisAV.startingVertex)

C13_Witness ==
    /\ RunAt({"DONE"})
    /\ thisAV.stoppingCondition = "FindReachable"
    /\ thisAV.stoppedBecause = "FoundComponent"
    /\ Cardinality(AddedSet(thisAV)) = 3
    /\ Cardinality(Components) = 2

\* C14: under FindAll a finished run has added every vertex and reports as
\* many components (componentNum + 1) as the graph has; whenever
\* finalizeComponent is about to run, componentVList holds exactly the
\* vertices of one connected component, each once, and componentEList one
\* edge fewer, which span it.  The graph with the edges 0-1 and 2-3 only
\* gives 2 components of 2 vertices and 1 edge.
C14_AllComponents ==
    (thisAV # null /\ thisAV.stoppingCondition = "FindAll") =>
        /\ hdxAV.nextAction = "DONE" =>
             /\ AddedSet(thisAV) = Vertices
             /\ thisAV.componentNum + 1 = Cardinality(Components)
             /\ thisAV.stoppedBecause = "FoundAllComponents"
        /\ hdxAV.nextAction = "finalizeComponent" =>
             LET V == SeqSet(thisAV.componentVList)
                 E == SeqSet(thisAV.componentEList) IN
             /\ Len(thisAV.componentVList) = Cardinality(V)
             /\ V \in Components
             /\ Len(thisAV.componentEList) = Len(thisAV.componentVList) - 1
             /\ Cardinality(E) = Len(thisAV.componentEList)
             /\ Closure({thisAV.componentVList[1]}, E) = V

C14_Witness ==
    /\ RunAt({"DONE"})
    /\ thisAV.stoppingCondition = "FindAll"
    /\ numE = 2
    /\ EdgeEnds(0) = {0, 1}
    /\ EdgeEnds(1) = {2, 3}
    /\ thisAV.componentNum + 1 = 2
    /\ SeqSet(thisAV.componentVList) = {2, 3}
    /\ thisAV.componentEList = <<1>>
    /\ thisAV.numVSpanningTree = 4

\* C15: under FindAll startNewComponent runs only while a vertex is still
\* not added, and when it has run the search index is within the vertices
\* and the one entry in the container is the seed of the lowest-indexed
\* vertex not added.
C15_LowestUnaddedSeed ==
    (thisAV # null /\ thisAV.stoppingCondition = "FindAll") =>
        /\ hdxAV.nextAction = "startNewComponent" =>
             AddedSet(thisAV) # Vertices
        /\ (/\ hdxAV.nextAction = "checkAllComponentsDone"
            /\ thisAV.componentNum >= 1
            /\ ~thisAV.allComponentsDone) =>
             LET v == thisAV.startUnaddedVSearch IN
             /\ v \in Vertices
             /\ v \notin AddedSet(thisAV)
             /\ \A u \in Vertices : u < v => u \in AddedSet(thisAV)
             /\ thisAV.ldv.items = <<LDVEntry(v, 0, -1)>>

C15_Witness ==
    /\ RunAt({"checkAllComponentsDone"})
    /\ thisAV.stoppingCondition = "FindAll"
    /\ thisAV.componentNum = 1
    /\ ~thisAV.allComponentsDone
    /\ thisAV.startingVertex = 1
    /\ thisAV.startUnaddedVSearch = 3
    /\ AddedSet(thisAV) = {0, 1, 2}

FoundVals(av) == [k \in 1 .. Len(av.foundEntries) |-> av.foundEntries[k].entry.val]
FoundPlaces(av) == [k \in 1 .. Len(av.foundEntries) |-> av.foundEntries[k].entry.vIndex]

\* C16: under breadth-first search the value recorded for a vertex when it
\* is added is the least number of edges on a path to it from the start
\* vertex; on the cycle 0-1, 1-2, 2-3, 3-0 started at 0 with end 2 the
\* vertices 1 and 3 are recorded with 1 and vertex 2 with 2.
C16_BfsHopDistance ==
    (/\ thisAV # null
     /\ hdxAV.currentAV = "traversals"
     /\ ui.traversalDiscipline = "BFS") =>
        \A k \in 1 .. Len(thisAV.foundEntries) :
            LET e == thisAV.foundEntries[k].entry IN
            e.vIndex \in ComponentOf(thisAV.startingVertex) =>
                e.val = HopDistance({thisAV.startingVertex}, e.vIndex, 0)

C16_Witness ==
    /\ RunAt({"DONE"})
    /\ hdxAV.currentAV = "traversals"
    /\ ui.traversalDiscipline = "BFS"
    /\ thisAV.stoppingCondition = "StopAtEnd"
    /\ numE = 4
    /\ thisAV.startingVertex = 0
    /\ thisAV.endingVertex = 2
    /\ FoundVals(thisAV) = <<0, 1, 1, 2>>
    /\ {FoundPlaces(thisAV)[2], FoundPlaces(thisAV)[3]} = {1, 3}
    /\ FoundPlaces(thisAV)[4] = 2

\* C17: under Dijkstra's algorithm the value recorded for a vertex when it
\* is added is the length of a shortest path to it from the start vertex;
\* on the cycle with all lengths 1 started at 0 vertex 2 is recorded with 2.
C17_DijkstraShortest ==
    (thisAV # null /\ hdxAV.currentAV = "dijkstra") =>
        \A k \in 1 .. Len(thisAV.foundEntries) :
            LET e == thisAV.foundEntries[k].entry IN
            e.val = ShortestFrom(thisAV.startingVertex)[e.vIndex]

C17_Witness ==
    /\ RunAt({"DONE"})
    /\ hdxAV.currentAV = "dijkstra"
    /\ numE = 4
    /\ \A c \in AllEdges : At(graphEdges, c).len = 1
    /\ thisAV.startingVertex = 0
    /\ \E k \in 1 .. Len(thisAV.foundEntries) :
          /\ thisAV.foundEntries[k].entry.vIndex = 2
          /\ thisAV.foundEntries[k].entry.val = 2

(***************************************************************************)
(* Properties of the scheduler                                             *)
(***************************************************************************)
\* the continuations pending when the nextStep of the latest handler began
PendingBefore == IF last.event = "timer" THEN last.timers - 1 ELSE last.timers

\* C18: a continuation that fires while the status is AV_PAUSED executes no
\* action and sets no timeout, and leaves nextAction, iterationDone, the
\* status, the algorithm's fields and its container as they were.
C18_PausedContinuationIdle ==
    (last.event = "timer" /\ last.hdxAV.status = AV_PAUSED) =>
        /\ hdxAV = last.hdxAV
        /\ thisAV = last.thisAV
        /\ steps = last.steps
        /\ timers = last.timers - 1
        /\ ~thrown

C18_Witness ==
    /\ last.event = "timer"
    /\ last.hdxAV.status = AV_PAUSED
    /\ last.hdxAV.delay = NoAlgorithmDelay
    /\ last.hdxAV.nextAction = "checkNeighborsLoopIf"
    /\ steps > 5
    /\ timers = 0

\* C19: a continuation set before the latest pause press executes no action
\* when it fires, whatever was pressed in between.
C19_StaleContinuationIdle ==
    (last.event = "timer" /\ last.fired = "stale") =>
        /\ steps = last.steps
        /\ thisAV = last.thisAV
        /\ hdxAV.nextAction = last.hdxAV.nextAction

\* C20: when a nextStep with a delay other than 0 has done its action or
\* iteration, then with nextAction other than DONE one more continuation is
\* pending, set with the current delay, and the status is not AV_COMPLETE;
\* with nextAction DONE the status is AV_COMPLETE and no continuation was
\* set.
C20_ScheduleOrComplete ==
    (/\ last.event \in {"start", "timer", "resume"}
     /\ last.event = "timer" => last.hdxAV.status # AV_PAUSED
     /\ hdxAV.delay # 0
     /\ ~thrown
     /\ ~hung) =>
        IF hdxAV.nextAction # "DONE"
        THEN /\ timers = PendingBefore + 1
             /\ lastTimeout = hdxAV.delay
             /\ hdxAV.status # AV_COMPLETE
        ELSE /\ timers = PendingBefore
             /\ hdxAV.status = AV_COMPLETE

C20_Witness ==
    /\ last.event = "timer"
    /\ last.hdxAV.status = AV_RUNNING
    /\ last.hdxAV.nextAction = "cleanup"
    /\ hdxAV.delay = -1
    /\ hdxAV.nextAction = "DONE"
    /\ hdxAV.status = AV_COMPLETE
    /\ timers = 0
    /\ ~thrown

\* the machine the nextStep of the latest handler was called with
Entered ==
    [hdxAV |->
        CASE last.event = "start" ->
               [last.hdxAV EXCEPT !.status = AV_RUNNING, !.nextAction = "START",
                                  !.traceActions = hdxAV.traceActions]
          [] last.event = "resume" -> [last.hdxAV EXCEPT !.status = AV_RUNNING]
          [] OTHER -> last.hdxAV,
     thisAV |-> IF last.event = "start" THEN prepToStart(last.thisAV, ui)
                ELSE last.thisAV,
     ui |-> ui, timers |-> PendingBefore, thrown |-> FALSE, hung |-> FALSE,
     steps |-> IF last.event = "start" THEN 0 ELSE last.steps,
     sinceIter |-> 0, lastTimeout |-> lastTimeout]

\* the latest handler called nextStep, which did not return at once
Stepped ==
    /\ last.event \in {"start", "timer", "resume"}
    /\ Entered.hdxAV.status # AV_PAUSED

\* C21: with traceActions on and a delay other than 0, a nextStep that is
\* not held back by AV_PAUSED executes exactly one action, the one whose
\* label nextAction held when it was called.
C21_OneActionPerStep ==
    (/\ Stepped
     /\ hdxAV.traceActions
     /\ hdxAV.delay # 0
     /\ Entered.hdxAV.nextAction \in avActionLabels) =>
        LET done == avActionCode(Entered.hdxAV.nextAction, Entered, 0) IN
        /\ ~thrown
        /\ steps = Entered.steps + 1
        /\ thisAV = done.thisAV
        /\ hdxAV.nextAction = done.hdxAV.nextAction
        /\ hdxAV.iterationDone = done.hdxAV.iterationDone

C21_Witness ==
    /\ Stepped
    /\ last.event = "timer"
    /\ hdxAV.traceActions
    /\ hdxAV.delay = NoAlgorithmDelay
    /\ last.hdxAV.nextAction = "checkNeighborsLoopIfFalse"
    /\ hdxAV.nextAction = "checkNeighborsLoopIf"
    /\ steps = last.steps + 1

\* the actions from the one nextAction names through the first that sets
\* iterationDone, executed on m
RECURSIVE ThroughIterationDone(_, _)
ThroughIterationDone(m, fuel) ==
    LET label == m.hdxAV.nextAction
        ends == SetsIterationDone(label, m, 0)
        m1 == Counted(avActionCode(label, m, 0), ends)
    IN IF ends \/ fuel = 0 THEN m1 ELSE ThroughIterationDone(m1, fuel - 1)

\* C22: with traceActions off and a delay other than 0, a nextStep that is
\* not held back by AV_PAUSED executes the actions from nextAction through
\* the first one that sets iterationDone, and none after it.
C22_OneIterationPerStep ==
    (/\ Stepped
     /\ ~hdxAV.traceActions
     /\ hdxAV.delay # 0
     /\ Entered.hdxAV.nextAction \in avActionLabels) =>
        LET done == ThroughIterationDone(Entered, MaxActions) IN
        /\ ~thrown
        /\ steps = done.steps
        /\ thisAV = done.thisAV
        /\ hdxAV.nextAction = done.hdxAV.nextAction
        /\ hdxAV.iterationDone

C22_Witness ==
    /\ Stepped
    /\ last.event = "timer"
    /\ ~hdxAV.traceActions
    /\ hdxAV.delay = NoAlgorithmDelay
    /\ last.hdxAV.nextAction = "checkLDVEmpty"
    /\ hdxAV.nextAction = "checkLDVEmpty"
    /\ steps >= last.steps + 8

\* C24: when oneAction finds no action labelled nextAction, the status is
\* AV_PAUSED afterwards and the handler is left by the error; no action has
\* been executed, nextAction and the algorithm's fields are as they were,
\* and no timeout has been set.
C24_BadActionPauses ==
    (/\ Stepped
     /\ Entered.hdxAV.nextAction \notin avActionLabels
     /\ hdxAV.delay = 0 => Entered.hdxAV.nextAction # "DONE") =>
        /\ hdxAV.status = AV_PAUSED
        /\ thrown
        /\ steps = Entered.steps
        /\ thisAV = Entered.thisAV
        /\ hdxAV.nextAction = Entered.hdxAV.nextAction
        /\ timers = PendingBefore

C24_Witness ==
    /\ Stepped
    /\ last.event = "timer"
    /\ last.hdxAV.status = AV_COMPLETE
    /\ last.hdxAV.nextAction = "DONE"
    /\ hdxAV.delay = NoAlgorithmDelay
    /\ hdxAV.status = AV_PAUSED
    /\ thrown
    /\ timers = 0

\* C23: with delay -1, every press of start or resume executes one action
\* (traceActions on) or one iteration (traceActions off) and leaves the
\* status AV_PAUSED, or AV_COMPLETE when nextAction has become DONE; a
\* continuation that fires executes no action and leaves the algorithm's
\* fields and nextAction as they were.  Violated: a continuation that fires
\* after the run is complete sets AV_PAUSED, and the next press executes
\* nothing.
C23_SingleStep ==
    /\ (last.event \in {"start", "resume"}) =>
          LET done == IF hdxAV.traceActions
                      THEN Counted(avActionCode(Entered.hdxAV.nextAction,
                                                Entered, 0), FALSE)
                      ELSE ThroughIterationDone(Entered, MaxActions)
          IN /\ ~thrown
             /\ steps = done.steps
             /\ thisAV = done.thisAV
             /\ hdxAV.nextAction = done.hdxAV.nextAction
             /\ hdxAV.status = IF hdxAV.nextAction = "DONE" THEN AV_COMPLETE
                               ELSE AV_PAUSED
    /\ (last.event = "timer") =>
          /\ steps = last.steps
          /\ thisAV = last.thisAV
          /\ hdxAV.nextAction = last.hdxAV.nextAction
          /\ timers = last.timers - 1

\* the entries of bitmap b that are true are true in bitmap c
StaysTrue(b, c) ==
    /\ Len(b) <= Len(c)
    /\ \A i \in 1 .. Len(b) : b[i] => c[i]

\* C28: when START has run, no vertex is added, no edge is discovered and
\* the starting vertex is the only discovered vertex; from then on every
\* action up to DONE leaves each true entry of addedV, discoveredV and
\* discoveredE true.
C28_BitmapsOnlyGrow ==
    /\ (last.event = "start" /\ hdxAV.delay # 0) =>
          /\ steps = 1
          /\ thisAV.addedV = Filled(numV, FALSE)
          /\ thisAV.discoveredE = Filled(numE, FALSE)
          /\ thisAV.discoveredV =
                SetAt(Filled(numV, FALSE), thisAV.startingVertex, TRUE)
    /\ (last.event = "timer" /\ last.hdxAV.status = AV_RUNNING) =>
          /\ StaysTrue(last.thisAV.addedV, thisAV.addedV)
          /\ StaysTrue(last.thisAV.discoveredV, thisAV.discoveredV)
          /\ StaysTrue(last.thisAV.discoveredE, thisAV.discoveredE)

C28_Witness ==
    /\ last.event = "timer"
    /\ last.hdxAV.status = AV_RUNNING
    /\ last.hdxAV.nextAction = "startNewComponent"
    /\ hdxAV.traceActions
    /\ steps = last.steps + 1
    /\ \E i \in 1 .. numV : last.thisAV.addedV[i] /\ thisAV.addedV[i]
    /\ \E i \in 1 .. numV : ~last.thisAV.discoveredV[i] /\ thisAV.discoveredV[i]
    /\ \E i \in 1 .. numE : last.thisAV.discoveredE[i]

\* the edges other than `connection` on the edgeList of vertex v, and the
\* end of edge f that is not v
OtherEdges(v, connection) ==
    {f \in SeqSet(At(waypoints, v).edgeList) : f # connection}

FarEnd(v, f) ==
    IF At(graphEdges, f).v1 = v THEN At(graphEdges, f).v2 ELSE At(graphEdges, f).v1

\* the number of entries of the container that are among those of wanted
HowMany(container, wanted) ==
    Cardinality({k \in 1 .. Len(container.items) : container.items[k] \in wanted})

\* the entries of the two containers that were reached by the edge f
ViaEdge(a, b, f) ==
    {x \in {a.items[k] : k \in 1 .. Len(a.items)}
              \cup {b.items[k] : k \in 1 .. Len(b.items)} : x.connection = f}

\* C30: an iteration that removes the entry of a vertex v not yet added and
\* adds v treats every edge f on v's edgeList other than the edge v was
\* reached by in one of two ways before it ends: if the far end of f was
\* already added, f is marked discovered, counted in
\* numEDiscardedOnDiscovery, and no entry for f is inserted; otherwise one
\* entry (far end, valForLDVEntry(entry of v, f), f) is inserted and f is
\* marked discovered.
C30_NeighborsOfAddedVertex ==
    (/\ last.event = "timer"
     /\ last.hdxAV.status = AV_RUNNING
     /\ last.hdxAV.nextAction = "getPlaceFromLDV"
     /\ ~hdxAV.traceActions
     /\ hdxAV.delay # 0
     /\ ~thrown
     /\ ~At(last.thisAV.addedV, thisAV.visiting.vIndex)) =>
        LET before == last.thisAV
            entry == thisAV.visiting
            v == entry.vIndex
            others == OtherEdges(v, entry.connection)
            discarded == {f \in others : At(before.addedV, FarEnd(v, f))}
        IN /\ At(thisAV.addedV, v)
           /\ thisAV.numEDiscardedOnDiscovery =
                 before.numEDiscardedOnDiscovery + Cardinality(discarded)
           /\ \A f \in others :
                LET Via == ViaEdge(thisAV.ldv, before.ldv, f)
                    Expected == {LDVEntry(FarEnd(v, f),
                                    valForLDVEntry(thisAV, entry,
                                        [to |-> FarEnd(v, f), via |-> f]), f)}
                IN /\ At(thisAV.discoveredE, f)
                   /\ IF f \in discarded
                      THEN HowMany(thisAV.ldv, Via) = HowMany(before.ldv, Via)
                      ELSE /\ HowMany(thisAV.ldv, Via) = HowMany(before.ldv, Via) + 1
                           /\ HowMany(thisAV.ldv, Expected) =
                                 HowMany(before.ldv, Expected) + 1

C30_Witness ==
    /\ last.event = "timer"
    /\ last.hdxAV.status = AV_RUNNING
    /\ last.hdxAV.nextAction = "getPlaceFromLDV"
    /\ ~hdxAV.traceActions
    /\ hdxAV.delay # 0
    /\ ~thrown
    /\ ~At(last.thisAV.addedV, thisAV.visiting.vIndex)
    /\ thisAV.value = "dijkstra"
    /\ thisAV.visiting.connection # -1
    /\ \E f \in OtherEdges(thisAV.visiting.vIndex, thisAV.visiting.connection) :
          At(last.thisAV.addedV, FarEnd(thisAV.visiting.vIndex, f))
    /\ thisAV.numEDiscardedOnDiscovery = last.thisAV.numEDiscardedOnDiscovery + 1
    /\ Len(thisAV.ldv.items) = Len(last.thisAV.ldv.items) - 1

\* the machine START is executed on when start is pressed: the status is
\* AV_RUNNING, or AV_PAUSED in single step mode, prepToStart has been
\* called and the execution counts are empty
Started ==
    [Entered EXCEPT !.hdxAV.status = IF hdxAV.delay = -1 THEN AV_PAUSED
                                     ELSE AV_RUNNING,
                    !.hdxAV.execCounts = NoExecCounts,
                    !.hdxAV.maxExecCount = 0]

\* C25: a press of start while the status is AV_SELECTED sets AV_RUNNING,
\* calls prepToStart, empties the execution counts, sets nextAction to START
\* and steps: with a delay other than 0 the handler ends with START, and no
\* other action, executed on the prepared algorithm, START counted once, the
\* status AV_RUNNING (AV_PAUSED in single step mode) and one more timeout
\* pending; with delay 0 START has been executed once in the whole run.
C25_StartExecutesSTART ==
    last.event = "start" =>
        /\ last.hdxAV.status = AV_SELECTED
        /\ ~thrown
        /\ hdxAV.execCounts["START"] = 1
        /\ hdxAV.delay # 0 =>
              /\ hdxAV.status = Started.hdxAV.status
              /\ steps = 1
              /\ thisAV = START(Started).thisAV
              /\ thisAV.stoppingCondition = ui.stoppingCondition
              /\ hdxAV.nextAction = START(Started).hdxAV.nextAction
              /\ hdxAV.execCounts = [NoExecCounts EXCEPT !["START"] = 1]
              /\ hdxAV.maxExecCount = 1
              /\ timers = last.timers + 1

\* the second run is started after actions of the first run were counted
C25_Witness ==
    /\ last.event = "start"
    /\ last.runs = 2
    /\ last.hdxAV.execCounts["START"] = 1
    /\ last.hdxAV.execCounts["checkEndAdded"] > 0
    /\ last.thisAV.treeEdges # <<>>
    /\ hdxAV.execCounts = [NoExecCounts EXCEPT !["START"] = 1]
    /\ hdxAV.status = AV_RUNNING
    /\ steps = 1

\* C26: a press of reset while the status is AV_RUNNING leaves the status
\* AV_PAUSED, and a continuation of the run given up by a reset, whenever
\* it fires, executes no action: the count of actions and the fields of
\* the algorithm are as they were.
C26_ResetAbandonsRun ==
    /\ (last.event = "reset" /\ last.hdxAV.status = AV_RUNNING) =>
           hdxAV.status = AV_PAUSED
    /\ (last.event = "timer" /\ last.fired = "stale") =>
           /\ steps = last.steps
           /\ thisAV = last.thisAV

\* C27: once START has executed in a run, whatever ran before, treeEdges,
\* componentVList, componentEList and neighborsToLoop are empty and
\* stoppedBecause is StillRunning.  With a delay other than 0 the state
\* after the press of start is the state after START.
C27_STARTResetsRun ==
    (last.event = "start" /\ hdxAV.delay # 0) =>
        /\ thisAV.treeEdges = <<>>
        /\ thisAV.componentVList = <<>>
        /\ thisAV.componentEList = <<>>
        /\ thisAV.neighborsToLoop = <<>>
        /\ thisAV.stoppedBecause = "StillRunning"

\* a graph is loaded: graph data is what the page holds and shows
GraphLoaded == ui.datatable = "graph" /\ graphEdges # <<>>

\* C29: whenever the status is AV_SELECTED, AV_RUNNING, AV_PAUSED or
\* AV_COMPLETE, a graph is loaded.
C29_AVStatusImpliesGraph ==
    hdxAV.status \in {AV_SELECTED, AV_RUNNING, AV_PAUSED, AV_COMPLETE} =>
        GraphLoaded

\* the actions of the loop over the neighbors of the vertex added last
NeighborLoopLabels ==
    {"checkNeighborsLoopTop", "checkNeighborsLoopIf", "checkNeighborsLoopIfTrue",
     "checkNeighborsLoopIfFalse"}

\* C31: under StopAtEnd, in every state of a run in which the end vertex is
\* added, the end vertex is the vertex added last and the one being
\* visited, the action to come is one of the loop over its neighbors,
\* checkEndAdded or cleanup (or the run is at DONE), and once cleanup is to
\* come stoppedBecause is FoundPath.
C31_EndAddedStops ==
    (/\ RunAt(avActionLabels \cup {"DONE"})
     /\ thisAV.stoppingCondition = "StopAtEnd"
     /\ thisAV.addedV # <<>>
     /\ At(thisAV.addedV, thisAV.endingVertex)) =>
        /\ hdxAV.nextAction \in
              NeighborLoopLabels \cup {"checkEndAdded", "cleanup", "DONE"}
        /\ thisAV.visiting.vIndex = thisAV.endingVertex
        /\ thisAV.foundEntries[Len(thisAV.foundEntries)].entry.vIndex
              = thisAV.endingVertex
        /\ hdxAV.nextAction \in {"cleanup", "DONE"} =>
              thisAV.stoppedBecause = "FoundPath"

\* a run has stopped at the end vertex with entries left in the container
\* and vertices of the component not added
C31_Witness ==
    /\ RunAt({"DONE"})
    /\ thisAV.stoppingCondition = "StopAtEnd"
    /\ At(thisAV.addedV, thisAV.endingVertex)
    /\ thisAV.stoppedBecause = "FoundPath"
    /\ ~isEmpty(thisAV.ldv)
    /\ thisAV.numVSpanningTree = 2
    /\ Cardinality(ComponentOf(thisAV.startingVertex)) = 4

\* the edges by which the vertices found were reached
FoundEdges(av) ==
    {av.foundEntries[k].entry.connection : k \in 1 .. Len(av.foundEntries)} \ {-1}

\* the total length of the edges of E
RECURSIVE LengthOf(_)
LengthOf(E) ==
    IF E = {} THEN 0
    ELSE LET c == CHOOSE x \in E : TRUE
         IN At(graphEdges, c).len + LengthOf(E \ {c})

\* the spanning trees of the connected component of vertex s
SpanningTrees(s) ==
    {E \in SUBSET AllEdges :
        /\ Closure({s}, E) = ComponentOf(s)
        /\ Cardinality(E) = Cardinality(ComponentOf(s)) - 1}

\* C32: under Prim's algorithm with FindReachable, the edges recorded for
\* the vertices found when the run has stopped form a spanning tree of the
\* component of the start vertex, and no spanning tree of that component
\* has a smaller total length.
C32_PrimMinimalTree ==
    (/\ RunAt({"cleanup", "DONE"})
     /\ hdxAV.currentAV = "prim"
     /\ thisAV.stoppingCondition = "FindReachable") =>
        /\ FoundEdges(thisAV) \in SpanningTrees(thisAV.startingVertex)
        /\ thisAV.numESpanningTree = Cardinality(FoundEdges(thisAV))
        /\ \A E \in SpanningTrees(thisAV.startingVertex) :
              LengthOf(FoundEdges(thisAV)) <= LengthOf(E)

\* on the cycle of four edges of which one is longer than the others the
\* tree found is the cycle without the long edge, which is neither the
\* edge discovered last nor on the start vertex
C32_Witness ==
    /\ RunAt({"DONE"})
    /\ hdxAV.currentAV = "prim"
    /\ thisAV.stoppingCondition = "FindReachable"
    /\ numE = 4
    /\ thisAV.startingVertex = 0
    /\ At(graphEdges, 1).len = MaxLen
    /\ \A c \in AllEdges \ {1} : At(graphEdges, c).len = 1
    /\ FoundEdges(thisAV) = {0, 2, 3}
    /\ LengthOf(FoundEdges(thisAV)) = 3

\* C33: in each of the five action tables every value that the code of an
\* action assigns to nextAction is DONE or the label of an action of that
\* table, and no path through the code of an action leaves nextAction
\* unassigned; so does every action executed on a walk of the tables.
C33_NextActionInTable ==
    /\ \A value \in DOMAIN avActions :
          \A label \in DOMAIN avActions[value] :
             /\ avActions[value][label] # {}
             /\ avActions[value][label]
                   \subseteq (DOMAIN avActions[value] \cup {"DONE"})
    /\ last.event = "action" =>
          /\ last.fired = "assigned"
          /\ hdxAV.nextAction \in DOMAIN avActions[hdxAV.currentAV] \cup {"DONE"}

\* the walk of the convex hull table has come from checkEliminated through
\* addToHull, v2forLoopTop, v1forLoopTop and cleanup to DONE
C33_Witness ==
    /\ hdxAV.currentAV = "bfhull"
    /\ hdxAV.nextAction = "DONE"
    /\ last.event = "action"
    /\ last.fired = "assigned"
    /\ last.hdxAV.nextAction = "cleanup"
    /\ steps >= 10

\* C34: the walk of the convex hull table from START does not stop short
\* of DONE: no action throws, and the loop of cleanup that chains the hull
\* segments ends.
C34_HullWalkReachesDone ==
    hdxAV.currentAV = "bfhull" => (~hung /\ ~thrown)

\* the pairs v1 < v2 of the loaded waypoints
WaypointPairs == {p \in (0 .. numV - 1) \X (0 .. numV - 1) : p[1] < p[2]}

\* the distance between the waypoints of a pair
PairDistance(p) ==
    distanceInMiles(At(waypoints, p[1]).lat, At(waypoints, p[1]).lon,
                    At(waypoints, p[2]).lat, At(waypoints, p[2]).lon)

\* C35: every closest and farthest pairs run goes through to DONE, and at
\* DONE closest is a pair of the loaded waypoints at the least distance of
\* all pairs, farthest one at the greatest, whatever earlier runs left in
\* closest, d_closest, farthest and d_farthest.
C35_PairsAreExtremes ==
    hdxAV.currentAV = "closestpairs" =>
        /\ ~thrown
        /\ (hdxAV.nextAction = "DONE" /\ hdxAV.status = AV_COMPLETE) =>
              /\ thisAV.closest \in WaypointPairs
              /\ thisAV.farthest \in WaypointPairs
              /\ \A p \in WaypointPairs :
                    /\ PairDistance(thisAV.closest) <= PairDistance(p)
                    /\ PairDistance(thisAV.farthest) >= PairDistance(p)
              /\ thisAV.d_closest = PairDistance(thisAV.closest)
              /\ thisAV.d_farthest = PairDistance(thisAV.farthest)

\* C36: when a nextStep with delay 0 has walked the run to its end, that
\* is, it began at an action other than DONE and returns with nextAction
\* DONE, the status is AV_COMPLETE.
C36_RunToCompletionCompletes ==
    (/\ Stepped
     /\ hdxAV.delay = 0
     /\ Entered.hdxAV.nextAction # "DONE"
     /\ hdxAV.nextAction = "DONE"
     /\ ~thrown
     /\ ~hung) =>
        hdxAV.status = AV_COMPLETE

\* C37: oneAction is never called with a nextAction that labels no action
\* of the table, DONE included: no handler is left by the error that
\* follows the alert of oneAction.
C37_BadActionUnreachable ==
    ~(/\ hdxAV.currentAV = "traversals"
      /\ thrown
      /\ hdxAV.nextAction \notin avActionLabels)

\* C38: in a traversal run remove() is never called on an empty container:
\* whenever getPlaceFromLDV is the next action the container holds an
\* entry, no removal has been counted without an entry to hand out, and
\* getPlaceFromLDV has never been left by the error of an undefined place.
C38_RemoveOnlyWhenNonEmpty ==
    RunAt(avActionLabels \cup {"DONE"}) =>
        /\ hdxAV.nextAction = "getPlaceFromLDV" => ~isEmpty(thisAV.ldv)
        /\ thisAV.ldv.removeCount <= thisAV.ldv.addCount
        /\ Len(thisAV.ldv.items) = thisAV.ldv.addCount - thisAV.ldv.removeCount
        /\ thisAV.visiting # undefined
        /\ ~(thrown /\ hdxAV.nextAction = "getPlaceFromLDV")

C38_Witness ==
    /\ RunAt({"checkAdded"})
    /\ thisAV.stoppingCondition = "FindAll"
    /\ thisAV.ldv.type = RANDOM
    /\ isEmpty(thisAV.ldv)
    /\ thisAV.ldv.removeCount = 3
    /\ thisAV.visiting.vIndex = 2

\* the positions of foundEntries that hold a seed entry: one with no edge
SeedRows(av) ==
    {k \in 1 .. Len(av.foundEntries) : av.foundEntries[k].entry.connection = -1}

\* C39: at every point of a traversal run each vertex has been added at
\* most once, numVSpanningTree is the number of added vertices,
\* numESpanningTree is numVSpanningTree less the number of seed entries
\* added, and every entry added with an edge was reached over that edge from
\* a vertex added before it: the recorded edges form a forest with one tree
\* for each seed.
C39_AddedFormForest ==
    RunAt(avActionLabels \cup {"DONE"}) =>
        LET F == thisAV.foundEntries IN
        /\ \A j, k \in 1 .. Len(F) :
              j # k => F[j].entry.vIndex # F[k].entry.vIndex
        /\ {F[k].entry.vIndex : k \in 1 .. Len(F)} =
              (IF thisAV.addedV = <<>> THEN {} ELSE AddedSet(thisAV))
        /\ thisAV.numVSpanningTree = Len(F)
        /\ thisAV.numESpanningTree =
              thisAV.numVSpanningTree - Cardinality(SeedRows(thisAV))
        /\ \A k \in 1 .. Len(F) :
              /\ F[k].count = k - Cardinality({j \in SeedRows(thisAV) : j <= k})
              /\ F[k].entry.connection # -1 =>
                    /\ EdgeEnds(F[k].entry.connection) =
                          {F[k].entry.fromVIndex, F[k].entry.vIndex}
                    /\ \E j \in 1 .. k - 1 :
                          F[j].entry.vIndex = F[k].entry.fromVIndex
        /\ Len(F) > 0 => 1 \in SeedRows(thisAV)
        /\ Cardinality(SeedRows(thisAV)) =
              (IF Len(F) = 0 THEN 0
               ELSE IF thisAV.stoppingCondition = "FindAll"
               THEN Cardinality({ComponentOf(F[k].entry.vIndex) : k \in 1 .. Len(F)})
               ELSE 1)

C39_Witness ==
    /\ RunAt({"DONE"})
    /\ thisAV.stoppingCondition = "FindAll"
    /\ thisAV.value = "prim"
    /\ Len(thisAV.foundEntries) = 4
    /\ SeedRows(thisAV) = {1, 3}
    /\ thisAV.numVSpanningTree = 4
    /\ thisAV.numESpanningTree = 2
    /\ numE = 2

\* the edges marked in discoveredE
DiscoveredEdges(av) == {e \in 0 .. numE - 1 : At(av.discoveredE, e)}

\* C40: at the end of a FindReachable or FindAll run every discovered edge
\* is counted in exactly one of the three statistics: numESpanningTree +
\* numEDiscardedOnDiscovery + numEDiscardedOnRemoval is the number of edges
\* marked discovered.
C40_EdgeCountsAddUp ==
    (/\ RunAt({"DONE"})
     /\ thisAV.stoppingCondition \in {"FindReachable", "FindAll"}) =>
        thisAV.numESpanningTree + thisAV.numEDiscardedOnDiscovery
            + thisAV.numEDiscardedOnRemoval
          = Cardinality(DiscoveredEdges(thisAV))

====
